---- MODULE Spec2Model ----
(***************************************************************************)
(* Model of the Trainer of nerf/utils.py: the checkpoint lifecycle         *)
(* (save_checkpoint / load_checkpoint / train / evaluate), the precision   *)
(* step sequence, the multi-worker evaluation reduction, the interactive   *)
(* train_gui burst and the error-map update of train_step.                 *)
(***************************************************************************)
EXTENDS Integers, Sequences, FiniteSets, TLC

\* ------------------------------------------------------------------------
\* Bounds of the model
\* ------------------------------------------------------------------------
MaxKeep == 1
MaxEpochs == 2
MaxHist == 2
\* number of operations invoked on the workspace in one behaviour
MaxCalls == 3

\* values of the per-epoch mean losses
LossVals == {1, 2}
TrainLossVals == {1}
\* len(train_loader) of the training supplies, and the default of train_loader_size
TrainSizes == {2}
DefaultTrainSize == -1

\* ------------------------------------------------------------------------
\* Optional values: None is the empty tuple, a present value v is <<v>>
\* ------------------------------------------------------------------------
None == << >>
Some(v) == <<v>>
Last(s) == s[Len(s)]

RECURSIVE SeqMin(_)
SeqMin(s) == IF Len(s) = 1 THEN s[1]
             ELSE LET m == SeqMin(Tail(s)) IN IF s[1] < m THEN s[1] ELSE m

\* ------------------------------------------------------------------------
\* State of one Trainer over one workspace
\* ------------------------------------------------------------------------
VARIABLES
    epoch,          \* self.epoch
    global_step,    \* self.global_step
    stats,          \* self.stats
    model,          \* parameters of self.model: key -> version of the value
    ema,            \* self.ema: None, or the version of the shadow parameters
    optimizer,      \* state of self.optimizer (number of updates it has seen)
    lr_scheduler,   \* state of self.lr_scheduler (number of advances)
    cfg,            \* constructor arguments kept by the trainer
    disk,           \* the checkpoints directory: path -> content of the file
    pc,             \* position of train(): "idle" outside of train()
    targs,          \* arguments of the running train() call
    fx,             \* file-system calls made by the most recent operation
    snap,           \* trainer state when the most recent regular full save returned
    calls,          \* number of operations invoked so far
    em,             \* the error map of the training set and the update made last
    amp,            \* self.scaler and the outcome of the last optimization step
    dist,           \* the workers of a distributed evaluation pass
    gui,            \* a train_gui call
    swp,            \* live and shadow parameters around a scoped EMA swap
    lod,            \* a load_checkpoint call over given files, with injected faults
    qual,           \* the quality value an evaluation records
    fsx,            \* file-system effects of the workers of a distributed run
    cad,            \* the epochs run and checkpoints written by a train() call
    stp,            \* the optimization steps of the training loops, one by one
    ray             \* a get_rays call: its arguments and the indices it returns

ckptVars == <<epoch, global_step, stats, model, ema, optimizer, lr_scheduler,
              cfg, disk, pc, targs, fx, snap, calls>>

moreVars == <<swp, lod, qual, fsx, cad, stp, ray>>

vars == <<ckptVars, em, amp, dist, gui, moreVars>>

\* an operation is invoked from outside, within the budget of the behaviour
Call == calls < MaxCalls /\ calls' = calls + 1

\* ------------------------------------------------------------------------
\* Paths.  f"{ckpt_path}/{name}_trainsize{size}_ep{epoch:04d}.pth.tar" and
\* the canonical best file f"{ckpt_path}/{name}.pth"
\* ------------------------------------------------------------------------
file_path(size, ep) == [kind |-> "ckpt", size |-> size, ep |-> ep]
best_path == [kind |-> "best", size |-> 0, ep |-> 0]

RECURSIVE DecStr(_)
DecStr(n) == IF n < 0 THEN <<45>> \o DecStr(-n)
             ELSE IF n < 10 THEN <<48 + n>>
             ELSE DecStr(n \div 10) \o <<48 + (n % 10)>>

Pad4(n) == LET s == DecStr(n)
           IN  IF Len(s) >= 4 THEN s ELSE [i \in 1..(4 - Len(s)) |-> 48] \o s

\* the characters of a regular checkpoint path after the common prefix
\* "{name}_trainsize": "{size}_ep{epoch:04d}."
PathStr(p) == DecStr(p.size) \o <<95, 101, 112>> \o Pad4(p.ep) \o <<46>>

RECURSIVE LexLess(_, _)
LexLess(a, b) == IF Len(b) = 0 THEN FALSE
                 ELSE IF Len(a) = 0 THEN TRUE
                 ELSE IF a[1] # b[1] THEN a[1] < b[1]
                 ELSE LexLess(Tail(a), Tail(b))

\* sorted(glob.glob(f'{ckpt_path}/{name}_trainsize*_ep*.pth.tar'))
checkpoint_list(d) == {p \in DOMAIN d : p.kind = "ckpt"}
SortedLast(S) == CHOOSE p \in S : \A q \in S \ {p} : LexLess(PathStr(q), PathStr(p))

\* ------------------------------------------------------------------------
\* Trainer.__init__: variable init
\* ------------------------------------------------------------------------
EmptyStats == [loss |-> << >>, valid_loss |-> << >>, results |-> << >>,
               checkpoints |-> << >>, best_result |-> None]

KeySets == {{"sigma_net"}, {"sigma_net", "bg_net"}}
FreshModel(keys) == [k \in keys |-> 0]

Fresh(c) == [epoch |-> 1, global_step |-> 0, stats |-> EmptyStats,
             model |-> FreshModel(c.keys),
             ema |-> IF c.ema_decay THEN Some(0) ELSE None,
             optimizer |-> 0, lr_scheduler |-> 0]

Self == [epoch |-> epoch, global_step |-> global_step, stats |-> stats,
         model |-> model, ema |-> ema, optimizer |-> optimizer,
         lr_scheduler |-> lr_scheduler]

\* what the most recent operation did: the files it wrote (torch.save) and
\* removed (os.remove), the entries it evicted from stats['checkpoints'], the
\* file it loaded, the warnings it logged and whether it raised
NoFx(op) == [op |-> op, written |-> {}, removed |-> {}, evicted |-> {},
             loaded |-> None, model_only |-> FALSE, warnings |-> {},
             raised |-> FALSE]

NoSnap == [valid |-> FALSE, path |-> best_path, epoch |-> 0, global_step |-> 0,
           stats |-> EmptyStats]

\* ------------------------------------------------------------------------
\* save_checkpoint
\* ------------------------------------------------------------------------
\* the state dict; 'stats' is a reference to self.stats, so the file holds
\* the stats as they are when torch.save runs
CkptState(tr, st, full, params) ==
    [epoch |-> tr.epoch, global_step |-> tr.global_step, stats |-> st,
     model |-> params,
     optimizer |-> IF full THEN Some(tr.optimizer) ELSE None,
     lr_scheduler |-> IF full THEN Some(tr.lr_scheduler) ELSE None,
     ema |-> IF full /\ tr.ema # None THEN tr.ema ELSE None]

TorchSave(d, p, content) == [q \in DOMAIN d \cup {p} |-> IF q = p THEN content ELSE d[q]]
OsRemove(d, p) == [q \in DOMAIN d \ {p} |-> d[q]]

\* len(self.stats["checkpoints"]) > self.max_keep_ckpt
OverLimit_ge(ckpts, keep) == Len(ckpts) >= keep
OverLimit(ckpts, keep) == Len(ckpts) > keep

\* the not-best branch: returns the stats, the disk and the effects
SaveRegular(tr, c, d, full, remove_old, size) ==
    LET fp == file_path(size, tr.epoch)
        appended == IF remove_old THEN Append(tr.stats.checkpoints, fp)
                    ELSE tr.stats.checkpoints
        evict == remove_old /\ OverLimit(appended, c.max_keep_ckpt)
        old_ckpt == Head(appended)
        st == [tr.stats EXCEPT !.checkpoints = IF evict THEN Tail(appended) ELSE appended]
        rm == evict /\ old_ckpt \in DOMAIN d
        d1 == IF rm THEN OsRemove(d, old_ckpt) ELSE d
    IN  [stats |-> st,
         disk |-> TorchSave(d1, fp, CkptState(tr, st, full, tr.model)),
         fx |-> [NoFx(IF remove_old THEN "save" ELSE "save_keep") EXCEPT
                 !.written = {fp},
                 !.removed = IF rm THEN {old_ckpt} ELSE {},
                 !.evicted = IF evict THEN {old_ckpt} ELSE {}]]

\* self.stats["best_result"] is None or self.stats["results"][-1] < self.stats["best_result"]
Improves_le(st) == st.best_result = None \/ Last(st.results) <= st.best_result[1]
Improves_gt(st) == st.best_result = None \/ Last(st.results) > st.best_result[1]
Improves(st) == st.best_result = None \/ Last(st.results) < st.best_result[1]

\* the parameters stored by a best save: the shadow ones while EMA is on
\* (ema.store(); ema.copy_to(); state_dict(); ema.restore())
\* a shadow value is told from a live one by its sign
ShadowValue(v) == -1 - v
BestParams(tr) == IF tr.ema # None THEN [k \in DOMAIN tr.model |-> ShadowValue(tr.ema[1])]
                  ELSE tr.model

\* the best branch
SaveBest(tr, d, full, size) ==
    IF Len(tr.stats.results) > 0 /\ Improves(tr.stats)
    THEN LET st == [tr.stats EXCEPT !.best_result = Some(Last(tr.stats.results))]
             content == CkptState(tr, st, full, BestParams(tr))
             fp == file_path(size, tr.epoch)
         IN  [stats |-> st,
              disk |-> TorchSave(TorchSave(d, best_path, content), fp, content),
              fx |-> [NoFx("save_best") EXCEPT !.written = {best_path, fp}]]
    ELSE [stats |-> tr.stats, disk |-> d, fx |-> NoFx("save_best")]

SaveResult(tr, c, d, full, best, remove_old, size) ==
    IF best THEN SaveBest(tr, d, full, size)
    ELSE SaveRegular(tr, c, d, full, remove_old, size)

\* the snapshot kept for the round trip: taken when a regular full save
\* returns, dropped when another write replaces that file
SnapAfter(r, full, best) ==
    IF ~best /\ full
    THEN [valid |-> TRUE, path |-> CHOOSE p \in r.fx.written : TRUE,
          epoch |-> epoch, global_step |-> global_step, stats |-> r.stats]
    ELSE IF snap.valid /\ snap.path \in r.fx.written \cup r.fx.removed
    THEN NoSnap ELSE snap

\* a call of save_checkpoint from outside train()
save_checkpoint(full, best, remove_old, size) ==
    /\ pc = "idle"
    /\ LET r == SaveResult(Self, cfg, disk, full, best, remove_old, size)
       IN  /\ stats' = r.stats
           /\ disk' = r.disk
           /\ fx' = r.fx
           /\ snap' = SnapAfter(r, full, best)
    /\ UNCHANGED <<epoch, global_step, model, ema, optimizer, lr_scheduler, cfg, pc, targs>>

\* ------------------------------------------------------------------------
\* load_checkpoint
\* ------------------------------------------------------------------------
\* checkpoint is None ("latest") or Some(path); the result is the file that
\* torch.load reads: None when no checkpoint is found
Resolve(d, checkpoint) ==
    IF checkpoint = None
    THEN IF checkpoint_list(d) = {} THEN None ELSE Some(SortedLast(checkpoint_list(d)))
    ELSE checkpoint

\* model.load_state_dict(checkpoint_dict['model'], strict=False)
LoadStateDict(live, saved) ==
    [k \in DOMAIN live |-> IF k \in DOMAIN saved THEN saved[k] ELSE live[k]]

KeyWarnings(live, saved) ==
    (IF DOMAIN live \ DOMAIN saved # {} THEN {"missing keys"} ELSE {})
    \cup (IF DOMAIN saved \ DOMAIN live # {} THEN {"unexpected keys"} ELSE {})

\* the trainer after loading the structured record f
LoadFrom_nostep(tr, f, model_only) ==
    LET m == LoadStateDict(tr.model, f.model)
        e == IF tr.ema # None /\ f.ema # None THEN f.ema ELSE tr.ema
    IN  IF model_only THEN [tr EXCEPT !.model = m, !.ema = e]
        ELSE [epoch |-> f.epoch, global_step |-> tr.global_step, stats |-> f.stats,
              model |-> m, ema |-> e,
              optimizer |-> IF f.optimizer # None THEN f.optimizer[1] ELSE tr.optimizer,
              lr_scheduler |-> IF f.lr_scheduler # None THEN f.lr_scheduler[1]
                               ELSE tr.lr_scheduler]
LoadFrom(tr, f, model_only) ==
    LET m == LoadStateDict(tr.model, f.model)
        e == IF tr.ema # None /\ f.ema # None THEN f.ema ELSE tr.ema
    IN  IF model_only THEN [tr EXCEPT !.model = m, !.ema = e]
        ELSE [epoch |-> f.epoch, global_step |-> f.global_step, stats |-> f.stats,
              model |-> m, ema |-> e,
              optimizer |-> IF f.optimizer # None THEN f.optimizer[1] ELSE tr.optimizer,
              lr_scheduler |-> IF f.lr_scheduler # None THEN f.lr_scheduler[1]
                               ELSE tr.lr_scheduler]

\* load_checkpoint(checkpoint, model_only): the trainer and the effects
LoadResult(tr, d, checkpoint, model_only, op) ==
    LET r == Resolve(d, checkpoint)
    IN  IF r = None THEN [tr |-> tr, fx |-> NoFx(op)]
        ELSE IF r[1] \notin DOMAIN d
        THEN [tr |-> tr, fx |-> [NoFx(op) EXCEPT !.raised = TRUE]]
        ELSE [tr |-> LoadFrom(tr, d[r[1]], model_only),
              fx |-> [NoFx(op) EXCEPT !.loaded = r, !.model_only = model_only,
                      !.warnings = KeyWarnings(tr.model, d[r[1]].model)]]

SetSelf(tr) ==
    /\ epoch' = tr.epoch
    /\ global_step' = tr.global_step
    /\ stats' = tr.stats
    /\ model' = tr.model
    /\ ema' = tr.ema
    /\ optimizer' = tr.optimizer
    /\ lr_scheduler' = tr.lr_scheduler

SetInit(tr) ==
    /\ epoch = tr.epoch
    /\ global_step = tr.global_step
    /\ stats = tr.stats
    /\ model = tr.model
    /\ ema = tr.ema
    /\ optimizer = tr.optimizer
    /\ lr_scheduler = tr.lr_scheduler

\* a call of load_checkpoint from outside train()
load_checkpoint(checkpoint, model_only) ==
    /\ pc = "idle"
    /\ LET r == LoadResult(Self, disk, checkpoint, model_only, "load")
       IN  SetSelf(r.tr) /\ fx' = r.fx
    /\ UNCHANGED <<cfg, disk, pc, targs, snap>>

\* ------------------------------------------------------------------------
\* Trainer.__init__ over the existing workspace
\* ------------------------------------------------------------------------
EvalIntervals == {1, 2}
DefaultCfg == [max_keep_ckpt |-> 1, eval_interval |-> 1, save_max_epoch_only |-> FALSE,
               ema_decay |-> FALSE, keys |-> {"sigma_net"},
               workspace |-> TRUE, local_rank |-> 0]
\* the configurations tried: the default one with one argument changed
Cfgs == {[DefaultCfg EXCEPT !.max_keep_ckpt = k] : k \in 0..MaxKeep}
        \cup {[DefaultCfg EXCEPT !.ema_decay = b] : b \in BOOLEAN}
        \cup {[DefaultCfg EXCEPT !.keys = ks] : ks \in KeySets}

UseCheckpoint == {"scratch", "latest", "latest_model", "best", "path"}

Construct(c, use_checkpoint, path) ==
    /\ LET r == CASE use_checkpoint = "scratch" -> [tr |-> Fresh(c), fx |-> NoFx("construct")]
                  [] use_checkpoint = "latest" -> LoadResult(Fresh(c), disk, None, FALSE, "construct")
                  [] use_checkpoint = "latest_model" -> LoadResult(Fresh(c), disk, None, TRUE, "construct")
                  [] use_checkpoint = "best" ->
                        IF best_path \in DOMAIN disk
                        THEN LoadResult(Fresh(c), disk, Some(best_path), FALSE, "construct")
                        ELSE LoadResult(Fresh(c), disk, None, FALSE, "construct")
                  [] OTHER -> LoadResult(Fresh(c), disk, Some(path), FALSE, "construct")
       IN  \* a constructor that raises leaves the caller with the trainer it had
           IF r.fx.raised
           THEN /\ fx' = r.fx
                /\ UNCHANGED <<epoch, global_step, stats, model, ema, optimizer,
                               lr_scheduler, cfg, pc>>
           ELSE /\ SetSelf(r.tr)
                /\ fx' = r.fx
                /\ cfg' = c
                /\ pc' = "idle"
    /\ UNCHANGED <<disk, targs, snap>>

\* ------------------------------------------------------------------------
\* train_one_epoch, train_last_data_only, evaluate_one_epoch (bookkeeping)
\* ------------------------------------------------------------------------
\* k optimization steps on the live parameters
Stepped(m, k) == [key \in DOMAIN m |-> m[key] + k]

\* train_one_epoch over a supply of n batches with mean loss l
TrainedEpoch(tr, n, l) ==
    [tr EXCEPT !.global_step = @ + n,
               !.model = Stepped(@, n),
               !.optimizer = @ + n,
               !.ema = IF @ # None THEN Some(@[1] + 1) ELSE None,
               !.stats = [@ EXCEPT !.loss = Append(@, l)],
               !.lr_scheduler = @ + 1]

\* train_last_data_only(loader, num_iters=k) with mean loss l
TrainedLast_epoch(tr, k, l) == IF k = 0 THEN tr ELSE TrainedEpoch(tr, k, l)

TrainedLast(tr, k, l) ==
    IF k = 0 THEN tr
    ELSE [tr EXCEPT !.global_step = @ + k,
                    !.model = Stepped(@, k),
                    !.optimizer = @ + k,
                    !.stats = [@ EXCEPT !.loss = Append(@, l)]]

\* evaluate_one_epoch on the coordinating worker with mean loss v; the result
\* is the mean loss (use_loss_as_metric, the default)
Evaluated(st, v) == [st EXCEPT !.valid_loss = Append(@, v), !.results = Append(@, v)]

\* evaluate(loader) from outside train()
evaluate(v) ==
    /\ pc = "idle"
    /\ Len(stats.results) < MaxHist
    /\ stats' = Evaluated(stats, v)
    /\ fx' = NoFx("evaluate")
    /\ UNCHANGED <<epoch, global_step, model, ema, optimizer, lr_scheduler, cfg,
                   disk, pc, targs, snap>>

\* ------------------------------------------------------------------------
\* train(train_loader, valid_loader, max_epochs, eval_train_loader,
\*       active_train_last_data_iters)
\* ------------------------------------------------------------------------
NoTrain == [max_epochs |-> 0, size |-> 0, eval_train |-> FALSE]

\* entry of train(): train_last_data_only, then the first iteration of
\* range(self.epoch, max_epochs + 1) if there is one
train_short(max_epochs, size, eval_train, iters, l) ==
    /\ pc = "idle"
    /\ iters > 0 => Len(stats.loss) < MaxHist
    /\ SetSelf(TrainedLast(Self, iters, l))
    /\ IF epoch < max_epochs
       THEN /\ pc' = "train_one_epoch"
            /\ targs' = [max_epochs |-> max_epochs, size |-> size,
                         eval_train |-> eval_train]
       ELSE /\ pc' = "idle"
            /\ targs' = NoTrain
    /\ fx' = NoFx("train")
    /\ UNCHANGED <<cfg, disk, snap>>

train(max_epochs, size, eval_train, iters, l) ==
    /\ pc = "idle"
    /\ iters > 0 => Len(stats.loss) < MaxHist
    /\ SetSelf(TrainedLast(Self, iters, l))
    /\ IF epoch <= max_epochs
       THEN /\ pc' = "train_one_epoch"
            /\ targs' = [max_epochs |-> max_epochs, size |-> size,
                         eval_train |-> eval_train]
       ELSE /\ pc' = "idle"
            /\ targs' = NoTrain
    /\ fx' = NoFx("train")
    /\ UNCHANGED <<cfg, disk, snap>>

train_one_epoch(l) ==
    /\ pc = "train_one_epoch"
    /\ Len(stats.loss) < MaxHist
    /\ SetSelf(TrainedEpoch(Self, targs.size, l))
    /\ pc' = "train_save"
    /\ fx' = NoFx("train_one_epoch")
    /\ UNCHANGED <<cfg, disk, targs, snap, calls>>

\* the checkpoint decision of the epoch
SavesAt_always(c, ep, max_epochs) ==
    /\ c.workspace /\ c.local_rank = 0
    /\ \/ ep % c.eval_interval = 0
       \/ c.save_max_epoch_only /\ ep = max_epochs

SavesAt(c, ep, max_epochs) ==
    /\ c.workspace /\ c.local_rank = 0
    /\ \/ ~c.save_max_epoch_only /\ ep % c.eval_interval = 0
       \/ c.save_max_epoch_only /\ ep = max_epochs

train_save ==
    /\ pc = "train_save"
    /\ IF SavesAt(cfg, epoch, targs.max_epochs)
       THEN LET r == SaveRegular(Self, cfg, disk, TRUE, TRUE, targs.size)
            IN  /\ stats' = r.stats
                /\ disk' = r.disk
                /\ fx' = r.fx
                /\ snap' = SnapAfter(r, TRUE, FALSE)
       ELSE /\ fx' = NoFx("train_save")
            /\ UNCHANGED <<stats, disk, snap>>
    /\ pc' = "train_eval"
    /\ UNCHANGED <<epoch, global_step, model, ema, optimizer, lr_scheduler, cfg, targs,
                   calls>>

\* the evaluation decision of the epoch, then the next iteration or the end
EvaluatesAt(c, ep) == ep % c.eval_interval = 0 /\ ep > 0

train_eval(vt, v) ==
    /\ pc = "train_eval"
    /\ LET n == IF ~EvaluatesAt(cfg, epoch) THEN 0 ELSE IF targs.eval_train THEN 2 ELSE 1
       IN  /\ Len(stats.results) + n <= MaxHist
           /\ stats' = IF n = 0 THEN stats
                        ELSE IF n = 1 THEN Evaluated(stats, v)
                        ELSE Evaluated(Evaluated(stats, vt), v)
    /\ IF epoch = targs.max_epochs
       THEN /\ pc' = "idle"
            /\ targs' = NoTrain
            /\ epoch' = epoch
       ELSE /\ pc' = "train_one_epoch"
            /\ targs' = targs
            /\ epoch' = epoch + 1
    /\ fx' = NoFx("train_eval")
    /\ UNCHANGED <<global_step, model, ema, optimizer, lr_scheduler, cfg, disk, snap,
                   calls>>

\* ------------------------------------------------------------------------
\* The checkpoint lifecycle
\* ------------------------------------------------------------------------
\* the parts of the trainer a specification does not exercise
Unused == [unused |-> TRUE]
MoreUnused == /\ swp = Unused /\ lod = Unused /\ qual = Unused /\ fsx = Unused
              /\ cad = Unused /\ stp = Unused /\ ray = Unused

InitCkpt ==
    /\ em = Unused /\ amp = Unused /\ dist = Unused /\ gui = Unused /\ MoreUnused
    /\ cfg \in Cfgs
    /\ SetInit(Fresh(cfg))
    /\ disk = << >>
    /\ pc = "idle"
    /\ targs = NoTrain
    /\ fx = NoFx("construct")
    /\ snap = NoSnap
    /\ calls = 0

SaveSizes == TrainSizes
AllPaths == {file_path(s, e) : s \in SaveSizes, e \in 1..MaxEpochs} \cup {best_path}

\* the operations a driver invokes on an idle trainer
Invoke ==
    \/ \E full \in BOOLEAN, best \in BOOLEAN, remove_old \in BOOLEAN, size \in SaveSizes :
          save_checkpoint(full, best, remove_old, size)
    \/ \E v \in LossVals : evaluate(v)
    \/ \E me \in 1..MaxEpochs, size \in TrainSizes, l \in TrainLossVals :
          train(me, size, FALSE, 0, l)

\* a new process over the workspace, or a reload
Reload ==
    \/ \E c \in Cfgs, u \in UseCheckpoint \ {"path"} : Construct(c, u, best_path)
    \/ \E c \in Cfgs, p \in AllPaths : Construct(c, "path", p)
    \/ \E ck \in {None} \cup {Some(p) : p \in AllPaths}, model_only \in BOOLEAN :
          load_checkpoint(ck, model_only)

\* the steps of a running train()
TrainLoop ==
    \/ \E l \in TrainLossVals : train_one_epoch(l)
    \/ train_save
    \/ \E vt \in LossVals, v \in LossVals : train_eval(vt, v)

NextCkpt ==
    \/ Call /\ Invoke /\ UNCHANGED <<em, amp, dist, gui, moreVars>>
    \/ Call /\ Reload /\ UNCHANGED <<em, amp, dist, gui, moreVars>>
    \/ TrainLoop /\ UNCHANGED <<em, amp, dist, gui, moreVars>>

SpecCkpt == InitCkpt /\ [][NextCkpt]_vars

\* one trainer, never restarted: any number of saves, evaluations and train() calls
NextBest ==
    \/ calls' = calls /\ Invoke /\ UNCHANGED <<em, amp, dist, gui, moreVars>>
    \/ TrainLoop /\ UNCHANGED <<em, amp, dist, gui, moreVars>>

SpecBest == InitCkpt /\ [][NextBest]_vars

\* ------------------------------------------------------------------------
\* Properties of the checkpoint lifecycle
\* ------------------------------------------------------------------------
Range(q) == {q[i] : i \in 1..Len(q)}
Min2(a, b) == IF a < b THEN a ELSE b

\* C1 (as claimed): after every save_checkpoint(best=False, remove_old=True)
\* the list stats['checkpoints'] holds at most max_keep_ckpt paths and no
\* path evicted by the call exists on disk when the call returns.
C1_Retention ==
    fx.op = "save" =>
        /\ Len(stats.checkpoints) <= cfg.max_keep_ckpt
        /\ \A p \in fx.evicted : p \notin DOMAIN disk

\* C2 (as claimed): after every best save, best_result is the smallest of
\* all the results recorded in stats['results'] so far.
C2_BestIsMinOfAll ==
    (fx.op = "save_best" /\ Len(stats.results) > 0) =>
        stats.best_result = Some(SeqMin(stats.results))

\* C2 (amended): a best save sets best_result to the smaller of the previous
\* best_result and the most recent result (to the most recent result when
\* best_result was absent, and leaves it alone when no result is recorded);
\* results that were followed by another result before the next best save
\* are not considered.  best_result never gets worse by a best save.
C2_BestFollowsLatest ==
    [][fx'.op = "save_best" =>
         /\ stats'.results = stats.results
         /\ stats'.best_result =
               IF Len(stats.results) = 0 THEN stats.best_result
               ELSE IF stats.best_result = None THEN Some(Last(stats.results))
               ELSE Some(Min2(stats.best_result[1], Last(stats.results)))
         /\ (stats.best_result # None =>
               /\ stats'.best_result # None
               /\ stats'.best_result[1] <= stats.best_result[1])]_vars

\* a best save made with two results recorded, the latest not the smallest
C2_Witness ==
    /\ fx.op = "save_best"
    /\ Len(stats.results) >= 2
    /\ stats.best_result # None
    /\ stats.best_result[1] < Last(stats.results)

\* C3: save_checkpoint(best=True) writes the canonical best file iff a result
\* is recorded and the most recent one is strictly smaller than best_result
\* (or best_result is absent); otherwise it writes no file, leaves
\* best_result (and the disk) unchanged and does not raise.
C3_BestRewrite ==
    [][fx'.op = "save_best" =>
         LET better == /\ Len(stats.results) > 0
                       /\ \/ stats.best_result = None
                          \/ Last(stats.results) < stats.best_result[1]
         IN  /\ (best_path \in fx'.written) <=> better
             /\ better => /\ best_path \in DOMAIN disk'
                           /\ disk'[best_path].stats.best_result = Some(Last(stats.results))
             /\ ~better => /\ fx'.written = {}
                            /\ disk' = disk
                            /\ stats' = stats
             /\ ~fx'.raised]_vars

\* a best save that found a recorded result but no strict improvement
C3_Witness ==
    /\ fx.op = "save_best"
    /\ fx.written = {}
    /\ Len(stats.results) > 0
    /\ stats.best_result = Some(Last(stats.results))
    /\ best_path \in DOMAIN disk

C9_BestKeepsRegular ==
    fx.op = "save_best" => \A p \in Range(stats.checkpoints) : p \notin fx.written

\* ------------------------------------------------------------------------
\* The error map and its update in train_step
\* ------------------------------------------------------------------------
\* number of cells of the coarse grid of a view (128 * 128 in get_rays)
GridCells == 2
\* number of training steps of a behaviour
MaxUpdates == 1

Views == {0, 1}
Cells == 0..(GridCells - 1)
\* shapes [B, N] of the batches: B views, N rays sampled in each
Shapes == {<<1, 1>>, <<1, 2>>, <<2, 1>>}

\* values of the map and of the loss are fixed-point numbers: One stands for
\* 1.0, and error_map_weight is given in tenths
Tenths == 10
One == Tenths ^ MaxUpdates
Weights == {1, 9}

\* rows of inds_coarse: torch.multinomial(error_map, N, replacement=False)
\* draws N distinct cells of a view; the order of the samples of a row is
\* immaterial, rows are listed in increasing order
SampleRows(n) == {r \in [1..n -> Cells] : \A i \in 1..n, j \in 1..n : i < j => r[i] < r[j]}

\* error_map.gather(1, inds), for one row
Gather_first(row, ind) == [n \in DOMAIN ind |-> row[ind[1]]]
Gather(row, ind) == [n \in DOMAIN ind |-> row[ind[n]]]

\* self.error_map_weight * error_map.gather(1, inds) + (1 - self.error_map_weight) * error
EmaError_swapped(w, old, err) == [n \in DOMAIN err |-> (w * err[n] + (Tenths - w) * old[n]) \div Tenths]
EmaError(w, old, err) == [n \in DOMAIN err |-> (w * old[n] + (Tenths - w) * err[n]) \div Tenths]

\* error_map.scatter_(1, inds, ema_error), for one row
Scatter_row(row, ind, val) == [c \in DOMAIN row |-> val[1]]
Scatter(row, ind, val) ==
    [c \in DOMAIN row |-> IF \E n \in DOMAIN ind : ind[n] = c
                          THEN val[CHOOSE n \in DOMAIN ind : ind[n] = c]
                          ELSE row[c]]

\* the rows taken out by self.error_map[index], after the update
UpdatedRows(map, w, index, inds, error) ==
    [b \in DOMAIN index |->
        Scatter(map[index[b]], inds[b], EmaError(w, Gather(map[index[b]], inds[b]), error[b]))]

\* self.error_map[index] = error_map: a view listed more than once in index
\* receives one of the rows written for it, pick says which
PutBack(map, index, rows, pick) ==
    [v \in DOMAIN map |-> IF \E b \in DOMAIN index : index[b] = v THEN rows[pick[v]] ELSE map[v]]

Picks(index) == {pk \in [Views -> DOMAIN index] :
                   \A v \in Views : (\E b \in DOMAIN index : index[b] = v) => index[pk[v]] = v}

\* the error-map part of train_step(data) for a batch with images
train_step(index, inds, error, pick) ==
    /\ em.steps < MaxUpdates
    /\ em' = [em EXCEPT !.map = PutBack(em.map, index,
                                        UpdatedRows(em.map, em.w, index, inds, error), pick),
                        !.steps = @ + 1,
                        !.index = index, !.inds = inds, !.error = error]

InitErr ==
    /\ \E w \in Weights, x \in {0, One} :
          em = [map |-> [v \in Views |-> [c \in Cells |-> IF c = 0 THEN One ELSE x]],
                w |-> w, steps |-> 0,
                index |-> << >>, inds |-> << >>, error |-> << >>]
    /\ amp = Unused /\ dist = Unused /\ gui = Unused /\ MoreUnused
    /\ cfg = DefaultCfg
    /\ SetInit(Fresh(DefaultCfg))
    /\ disk = << >> /\ pc = "idle" /\ targs = NoTrain
    /\ fx = NoFx("construct") /\ snap = NoSnap /\ calls = 0

NextErr ==
    /\ \E sh \in Shapes :
         \E index \in [1..sh[1] -> Views], inds \in [1..sh[1] -> SampleRows(sh[2])],
            error \in [1..sh[1] -> [1..sh[2] -> {0, One}]] :
           \E pick \in Picks(index) : train_step(index, inds, error, pick)
    /\ UNCHANGED <<ckptVars, amp, dist, gui, moreVars>>

SpecErr == InitErr /\ [][NextErr]_vars

\* the cells written by the update made last: the sampled cells of its views
Sampled(e, v, c) == \E b \in DOMAIN e.index : e.index[b] = v /\ \E n \in DOMAIN e.inds[b] : e.inds[b][n] = c
OccursOnce(e, b) == \A b2 \in DOMAIN e.index : e.index[b2] = e.index[b] => b2 = b

\* C8: an update leaves every entry that is not a sampled cell of an updated
\* view as it was: the rows of the other views and the unsampled cells of
\* the updated views.
C8_ErrorMapFrame ==
    [][\A v \in Views, c \in Cells :
          ~Sampled(em', v, c) => em'.map[v][c] = em.map[v][c]]_vars

\* an update that left a cell of an updated view and a row of another view alone
C8_Witness ==
    /\ em.steps > 0
    /\ \E v \in Views, c \in Cells, c2 \in Cells : Sampled(em, v, c) /\ ~Sampled(em, v, c2)
    /\ \E v \in Views : \A c \in Cells : ~Sampled(em, v, c)
    /\ \E v \in Views, c \in Cells : Sampled(em, v, c) /\ em.map[v][c] # One

\* C10 (as claimed): after an update each sampled cell holds
\* error_map_weight * observed_error + (1 - error_map_weight) * old_value.
C10_BlendWeightOnError ==
    [][\A b \in DOMAIN em'.index : \A n \in DOMAIN em'.inds[b] :
          LET v == em'.index[b]
              c == em'.inds[b][n]
          IN  em'.map[v][c] * Tenths = em.w * em'.error[b][n] + (Tenths - em.w) * em.map[v][c]]_vars

\* C10 (amended): after an update whose views are listed once in the batch,
\* each sampled cell holds
\* error_map_weight * old_value + (1 - error_map_weight) * observed_error:
\* the configured weight is the share of the old value.
C10_BlendWeightOnOld ==
    [][\A b \in DOMAIN em'.index : \A n \in DOMAIN em'.inds[b] :
          LET v == em'.index[b]
              c == em'.inds[b][n]
          IN  OccursOnce(em', b) =>
                em'.map[v][c] * Tenths = em.w * em.map[v][c] + (Tenths - em.w) * em'.error[b][n]]_vars

\* an update with the default weight blended an error of 0 into a cell of 1.0
C10_Witness ==
    /\ em.steps > 0
    /\ em.w = 1
    /\ \E b \in DOMAIN em.index : \E n \in DOMAIN em.inds[b] :
          /\ OccursOnce(em, b)
          /\ em.error[b][n] = 0
          /\ em.map[em.index[b]][em.inds[b][n]] * Tenths = One

\* ------------------------------------------------------------------------
\* The precision step: scaler.scale(loss).backward(); scaler.step(optimizer);
\* scaler.update()
\* ------------------------------------------------------------------------
\* torch.cuda.amp.GradScaler(enabled=self.fp16) with its default arguments:
\* init_scale 2^16, growth_factor 2, backoff_factor 1/2, growth_interval 2000.
\* The scale is kept as its exponent of 2.
InitScaleExp == 16
GrowthInterval == 2000
\* largest number of halvings and doublings of the scale in a behaviour
MaxBackoffs == 2
MaxGrowths == 1

GradScaler(enabled) == [enabled |-> enabled, scale |-> InitScaleExp, growth_tracker |-> 0]

\* scaler.step(optimizer): TRUE iff optimizer.step() is run.  A disabled
\* scaler runs it always; an enabled one unscales the gradients and runs it
\* iff none of them is inf or NaN.
ScalerStep(sc, overflow) == ~sc.enabled \/ ~overflow

\* scaler.update()
ScalerUpdate(sc, overflow) ==
    IF ~sc.enabled THEN sc
    ELSE IF overflow THEN [sc EXCEPT !.scale = @ - 1, !.growth_tracker = 0]
    ELSE IF sc.growth_tracker + 1 = GrowthInterval
         THEN [sc EXCEPT !.scale = @ + 1, !.growth_tracker = 0]
         ELSE [sc EXCEPT !.growth_tracker = @ + 1]

\* the step sequence of the training loops; overflow says whether the scaled
\* gradients of this step hold an inf or NaN
PrecisionStep_plain(sc, overflow) ==
    [scaler |-> ScalerUpdate(sc, overflow), applied |-> TRUE]
PrecisionStep_noupdate(sc, overflow) ==
    [scaler |-> sc, applied |-> ScalerStep(sc, overflow)]
PrecisionStep(sc, overflow) ==
    [scaler |-> ScalerUpdate(sc, overflow), applied |-> ScalerStep(sc, overflow)]

\* one iteration of the loop of train_one_epoch
precision_step(overflow) ==
    /\ overflow /\ amp.scaler.enabled => amp.scaler.scale > InitScaleExp - MaxBackoffs
    /\ (~overflow /\ amp.scaler.enabled /\ amp.scaler.growth_tracker + 1 = GrowthInterval)
          => amp.scaler.scale < InitScaleExp + MaxGrowths
    /\ LET r == PrecisionStep(amp.scaler, overflow)
       IN  amp' = [scaler |-> r.scaler, overflow |-> overflow, applied |-> r.applied]

InitAmp ==
    /\ \E fp16 \in BOOLEAN :
          amp = [scaler |-> GradScaler(fp16), overflow |-> FALSE, applied |-> FALSE]
    /\ em = Unused /\ dist = Unused /\ gui = Unused /\ MoreUnused
    /\ cfg = DefaultCfg
    /\ SetInit(Fresh(DefaultCfg))
    /\ disk = << >> /\ pc = "idle" /\ targs = NoTrain
    /\ fx = NoFx("construct") /\ snap = NoSnap /\ calls = 0

NextAmp ==
    /\ \E overflow \in BOOLEAN : precision_step(overflow)
    /\ UNCHANGED <<ckptVars, em, dist, gui, moreVars>>

SpecAmp == InitAmp /\ [][NextAmp]_vars

\* C5: a step whose overflow is detected while unscaling does not apply the
\* optimizer update and lowers the scale; a step without overflow applies
\* the update and does not lower the scale.
C5_ScaleSkip ==
    [][/\ (amp'.overflow /\ amp.scaler.enabled) =>
            (~amp'.applied /\ amp'.scaler.scale < amp.scaler.scale)
       /\ ~amp'.overflow =>
            (amp'.applied /\ amp'.scaler.scale >= amp.scaler.scale)]_vars

\* an overflow was detected after the scale had grown, and the step was skipped
C5_Witness ==
    /\ amp.scaler.enabled
    /\ amp.overflow
    /\ ~amp.applied
    /\ amp.scaler.scale = InitScaleExp
    /\ amp.scaler.growth_tracker = 0

\* ------------------------------------------------------------------------
\* evaluate_one_epoch on world_size workers: the reduction of the loss and
\* the gathering of the predictions
\* ------------------------------------------------------------------------
WorldSize == 2
\* number of batches of the evaluation supply of each worker, and their size
EvalBatches == 2
EvalBatchSize == 1

Ranks == 0..(WorldSize - 1)
EvalLosses == {2, 4}

\* numbers that come out of a division are kept as fractions
Frac(n, d) == [num |-> n, den |-> d]
FracAdd(a, b) == IF a.den = b.den THEN Frac(a.num + b.num, a.den)
                 ELSE Frac(a.num * b.den + b.num * a.den, a.den * b.den)

\* what eval_step returns on worker r for batch i: preds, preds_depth and
\* truths hold EvalBatchSize rows, named after their origin
EvalRows(what, r, i) == [j \in 1..EvalBatchSize |-> [what |-> what, rank |-> r, batch |-> i, row |-> j]]

\* the collective calls of one batch, in the order of the code
Collectives == <<"all_reduce", "gather_preds", "gather_depth", "gather_truths">>
CollectiveIndex(label) == CHOOSE k \in 1..Len(Collectives) : Collectives[k] = label

\* dist.all_reduce(loss, op=SUM): the sum of the contributions of all ranks
RECURSIVE SumTo(_, _)
SumTo(f, r) == IF r < 0 THEN 0 ELSE f[r] + SumTo(f, r - 1)
AllReduceSum(contrib) == SumTo(contrib, WorldSize - 1)

\* dist.all_gather(tensor_list, tensor): tensor_list[k] is the tensor of rank k
AllGather(contrib) == [k \in 1..WorldSize |-> contrib[k - 1]]

\* loss = loss / self.world_size
MeanOfSum_nodiv(total, w) == Frac(total, 1)
MeanOfSum(total, w) == Frac(total, w)

\* torch.cat(tensor_list, dim=0)
RECURSIVE TorchCat_reversed(_)
TorchCat_reversed(list) == IF list = << >> THEN << >> ELSE TorchCat_reversed(Tail(list)) \o Head(list)
RECURSIVE TorchCat(_)
TorchCat(list) == IF list = << >> THEN << >> ELSE Head(list) \o TorchCat(Tail(list))

\* the value a worker hands to the collective call at label
Contribution(d, r, label) ==
    CASE label = "all_reduce" -> d.loss[r].num
      [] label = "gather_preds" -> d.preds[r]
      [] label = "gather_depth" -> d.preds_depth[r]
      [] label = "gather_truths" -> d.truths[r]

\* if self.world_size > 1: the collective calls follow eval_step on every worker
AfterEvalStep_coordinator(r) == IF WorldSize > 1 /\ r = 0 THEN Collectives[1] ELSE "post"
AfterEvalStep(r) == IF WorldSize > 1 THEN Collectives[1] ELSE "post"

\* for data in loader: the next batch, or the end of the pass
eval_step(r) ==
    /\ dist.pc[r] = "loop"
    /\ IF dist.local_step[r] < EvalBatches
       THEN LET i == dist.local_step[r] + 1
            IN  dist' = [dist EXCEPT !.local_step[r] = i,
                                     !.loss[r] = Frac(dist.input[r], 1),
                                     !.preds[r] = EvalRows("preds", r, i),
                                     !.preds_depth[r] = EvalRows("depth", r, i),
                                     !.truths[r] = EvalRows("truths", r, i),
                                     !.pc[r] = AfterEvalStep(r)]
       ELSE dist' = [dist EXCEPT !.pc[r] = "done"]

\* a worker enters a collective call and hands over its value
collective_call(r) ==
    /\ dist.pc[r] \in Range(Collectives)
    /\ ~dist.waiting[r]
    /\ dist' = [dist EXCEPT !.waiting[r] = TRUE,
                            !.sent[r] = Append(@, [kind |-> dist.pc[r],
                                                   value |-> Contribution(dist, r, dist.pc[r])])]

\* the call returns once every worker has entered it
collective_return(r) ==
    /\ dist.pc[r] \in Range(Collectives)
    /\ dist.waiting[r]
    /\ LET n == Len(dist.sent[r])
           k == CollectiveIndex(dist.pc[r])
           after == IF k < Len(Collectives) THEN Collectives[k + 1] ELSE "post"
       IN  /\ \A q \in Ranks : Len(dist.sent[q]) >= n /\ dist.sent[q][n].kind = dist.pc[r]
           /\ LET contrib == [q \in Ranks |-> dist.sent[q][n].value]
              IN  dist' = [dist EXCEPT
                     !.waiting[r] = FALSE,
                     !.pc[r] = after,
                     !.loss[r] = IF k = 1 THEN MeanOfSum(AllReduceSum(contrib), WorldSize) ELSE @,
                     !.preds[r] = IF k = 2 THEN TorchCat(AllGather(contrib)) ELSE @,
                     !.preds_depth[r] = IF k = 3 THEN TorchCat(AllGather(contrib)) ELSE @,
                     !.truths[r] = IF k = 4 THEN TorchCat(AllGather(contrib)) ELSE @]

\* loss_val = loss.item(); total_loss += loss_val
eval_post(r) ==
    /\ dist.pc[r] = "post"
    /\ dist' = [dist EXCEPT !.total_loss[r] = FracAdd(@, dist.loss[r]), !.pc[r] = "loop"]

InitDist ==
    /\ \E input \in [Ranks -> EvalLosses] :
          dist = [pc |-> [r \in Ranks |-> "loop"],
                  local_step |-> [r \in Ranks |-> 0],
                  input |-> input,
                  loss |-> [r \in Ranks |-> Frac(0, 1)],
                  total_loss |-> [r \in Ranks |-> Frac(0, 1)],
                  preds |-> [r \in Ranks |-> << >>],
                  preds_depth |-> [r \in Ranks |-> << >>],
                  truths |-> [r \in Ranks |-> << >>],
                  waiting |-> [r \in Ranks |-> FALSE],
                  sent |-> [r \in Ranks |-> << >>]]
    /\ em = Unused /\ amp = Unused /\ gui = Unused /\ MoreUnused
    /\ cfg = DefaultCfg
    /\ SetInit(Fresh(DefaultCfg))
    /\ disk = << >> /\ pc = "idle" /\ targs = NoTrain
    /\ fx = NoFx("construct") /\ snap = NoSnap /\ calls = 0

NextDist ==
    \/ \E r \in Ranks : eval_step(r) /\ UNCHANGED <<ckptVars, em, amp, gui, moreVars>>
    \/ \E r \in Ranks : collective_call(r) /\ UNCHANGED <<ckptVars, em, amp, gui, moreVars>>
    \/ \E r \in Ranks : collective_return(r) /\ UNCHANGED <<ckptVars, em, amp, gui, moreVars>>
    \/ \E r \in Ranks : eval_post(r) /\ UNCHANGED <<ckptVars, em, amp, gui, moreVars>>

SpecDist == InitDist /\ [][NextDist]_vars

\* the batches of all workers for batch i, in the order of the ranks
RECURSIVE RowsUpTo(_, _, _)
RowsUpTo(what, i, r) == IF r < 0 THEN << >> ELSE RowsUpTo(what, i, r - 1) \o EvalRows(what, r, i)

\* C6: after the collective calls of a batch, the loss of every worker is
\* (sum of the per-worker losses) / world_size, and preds, preds_depth and
\* truths are the per-worker batches in the order of the ranks, of
\* world_size * B rows.
C6_Aggregation ==
    \A r \in Ranks : dist.pc[r] = "post" =>
        LET i == dist.local_step[r]
        IN  /\ dist.loss[r].num = SumTo(dist.input, WorldSize - 1)
            /\ dist.loss[r].den = WorldSize
            /\ dist.preds[r] = RowsUpTo("preds", i, WorldSize - 1)
            /\ dist.preds_depth[r] = RowsUpTo("depth", i, WorldSize - 1)
            /\ dist.truths[r] = RowsUpTo("truths", i, WorldSize - 1)
            /\ Len(dist.preds[r]) = WorldSize * EvalBatchSize

\* the coordinating worker holds the mean of the losses 2 and 4 and the
\* batch of worker 0 followed by that of worker 1
C6_Witness ==
    /\ dist.pc[0] = "post"
    /\ dist.input[0] = 2 /\ dist.input[1] = 4
    /\ dist.loss[0].num = 6 /\ dist.loss[0].den = WorldSize
    /\ dist.preds[0][1].rank = 0
    /\ dist.preds[0][EvalBatchSize + 1].rank = 1

\* ------------------------------------------------------------------------
\* train_gui: a fixed number of steps against a supply that is restarted
\* when it runs out
\* ------------------------------------------------------------------------
MaxGuiStep == 16
MaxBatches == 5

GuiSteps == {0, 1, MaxGuiStep}
GuiBatches == {1, MaxBatches}

\* the number of values train_step returns: three for a batch without
\* images, four for a batch with images
TrainStepArity(images) == IF images THEN 4 ELSE 3
\* preds, truths, loss = self.train_step(data)
GuiUnpackArity == 3

\* next(loader), and iter(train_loader) again on StopIteration
NextBatch(pos, m) == IF pos >= m THEN [data |-> 0, pos |-> 1] ELSE [data |-> pos, pos |-> pos + 1]

GuiIdle(gs, has_error_map) ==
    [pc |-> "idle", step |-> 0, m |-> 1, images |-> FALSE, it |-> 0, pos |-> 0,
     delivered |-> << >>, invocations |-> 0, opt_steps |-> 0,
     global_step |-> gs, start |-> gs, has_error_map |-> has_error_map, raised |-> "none"]

\* the call: total_loss = 0, loader = iter(train_loader)
train_gui(step, m, images) ==
    /\ gui.pc = "idle"
    /\ gui' = [GuiIdle(gui.global_step, gui.has_error_map) EXCEPT
                  !.pc = "loop", !.step = step, !.m = m, !.images = images]

\* one pass of the body of for _ in range(step)
train_gui_step ==
    /\ gui.pc = "loop"
    /\ gui.it < gui.step
    /\ LET nb == NextBatch(gui.pos, gui.m)
           has_map == gui.has_error_map \/ gui.global_step = 0
           g == [gui EXCEPT !.pos = nb.pos,
                            !.delivered = Append(@, nb.data),
                            !.has_error_map = has_map,
                            !.global_step = @ + 1,
                            !.invocations = @ + 1]
       IN  gui' = IF gui.images /\ ~has_map
                  THEN [g EXCEPT !.pc = "raised", !.raised = "AttributeError"]
                  ELSE IF TrainStepArity(gui.images) # GuiUnpackArity
                  THEN [g EXCEPT !.pc = "raised", !.raised = "ValueError"]
                  ELSE [g EXCEPT !.opt_steps = @ + 1, !.it = @ + 1]

\* after the loop: average_loss = total_loss.item() / step, then the return
train_gui_return ==
    /\ gui.pc = "loop"
    /\ gui.it = gui.step
    /\ gui' = IF gui.step = 0
              THEN [gui EXCEPT !.pc = "raised", !.raised = "ZeroDivisionError"]
              ELSE [gui EXCEPT !.pc = "returned"]

\* the caller takes the outcome and may call again
train_gui_done ==
    /\ gui.pc \in {"returned", "raised"}
    /\ gui.global_step < MaxGuiStep
    /\ gui' = GuiIdle(gui.global_step, gui.has_error_map)

InitGui ==
    /\ \E has_error_map \in BOOLEAN : gui = GuiIdle(0, has_error_map)
    /\ em = Unused /\ amp = Unused /\ dist = Unused /\ MoreUnused
    /\ cfg = DefaultCfg
    /\ SetInit(Fresh(DefaultCfg))
    /\ disk = << >> /\ pc = "idle" /\ targs = NoTrain
    /\ fx = NoFx("construct") /\ snap = NoSnap /\ calls = 0

NextGui ==
    \/ \E step \in GuiSteps, m \in GuiBatches, images \in BOOLEAN :
          train_gui(step, m, images) /\ UNCHANGED <<ckptVars, em, amp, dist, moreVars>>
    \/ train_gui_step /\ UNCHANGED <<ckptVars, em, amp, dist, moreVars>>
    \/ train_gui_return /\ UNCHANGED <<ckptVars, em, amp, dist, moreVars>>
    \/ train_gui_done /\ UNCHANGED <<ckptVars, em, amp, dist, moreVars>>

SpecGui == InitGui /\ [][NextGui]_vars

\* C7: train_gui(train_loader, step=n) with n >= 1 against a supply of
\* m >= 1 batches never raises, and when it is over it has made n model
\* invocations and n optimizer steps, has delivered batch (i mod m) at step
\* i, and has increased global_step by n.
C7_CyclicSupply ==
    /\ (gui.step >= 1 => gui.pc # "raised")
    /\ (gui.pc = "returned" =>
          /\ gui.invocations = gui.step
          /\ gui.opt_steps = gui.step
          /\ gui.delivered = [i \in 1..gui.step |-> (i - 1) % gui.m]
          /\ gui.global_step = gui.start + gui.step)

\* ------------------------------------------------------------------------
\* A trainer that no operation of a specification touches
\* ------------------------------------------------------------------------
IdleTrainer ==
    /\ cfg = DefaultCfg
    /\ SetInit(Fresh(DefaultCfg))
    /\ disk = << >> /\ pc = "idle" /\ targs = NoTrain
    /\ fx = NoFx("construct") /\ snap = NoSnap /\ calls = 0

\* ------------------------------------------------------------------------
\* The scoped EMA swap of evaluate_one_epoch, test_gui and
\* save_checkpoint(best=True): ema.store(); ema.copy_to(); ...; ema.restore()
\* ------------------------------------------------------------------------
\* number of training epochs between the calls, and of evaluation batches
MaxSwapTrain == 2
MaxSwapBatches == 2

SwapOps == {"evaluate_one_epoch", "test_gui", "save_best"}
\* the step of the call that raises: the eval / test step of a batch, or
\* the torch.save of a best save
SwapFaults == {"none", "step", "write"}

\* if self.ema is not None: self.ema.store(); self.ema.copy_to()
SwapIn(w) == IF w.ema THEN [w EXCEPT !.collected = Some(w.live), !.live = ShadowValue(w.shadow)]
             ELSE w

\* if self.ema is not None: self.ema.restore()
SwapOut(w) == IF w.ema THEN [w EXCEPT !.live = w.collected[1]] ELSE w

\* a training epoch between two calls: optimizer steps on the live
\* parameters, then ema.update()
swap_train ==
    /\ swp.pc = "idle"
    /\ swp.trained < MaxSwapTrain
    /\ swp' = [swp EXCEPT !.live = @ + 1, !.shadow = IF swp.ema THEN @ + 1 ELSE @,
                          !.trained = @ + 1]

\* entry of the call up to the swap-in
swap_call(op, n, fault) ==
    /\ swp.pc = "idle"
    /\ swp' = [SwapIn(swp) EXCEPT !.pc = "inside", !.op = op, !.n = n, !.left = n,
                                  !.fault = fault, !.before = swp.live]

\* the statements between the swap-in and the restore
\* evaluate_one_epoch: eval_step of each batch, then total_loss / self.local_step
\* test_gui: one test_step;  save_checkpoint: self.model.state_dict()
swap_body ==
    /\ swp.pc = "inside"
    /\ swp' = CASE swp.op = "evaluate_one_epoch" ->
                     IF swp.left > 0
                     THEN IF swp.fault = "step" THEN [swp EXCEPT !.pc = "raised"]
                          ELSE [swp EXCEPT !.left = @ - 1]
                     ELSE IF swp.n = 0 THEN [swp EXCEPT !.pc = "raised"]
                          ELSE [swp EXCEPT !.pc = "restore"]
                 [] swp.op = "test_gui" ->
                     IF swp.fault = "step" THEN [swp EXCEPT !.pc = "raised"]
                     ELSE [swp EXCEPT !.pc = "restore"]
                 [] swp.op = "save_best" -> [swp EXCEPT !.pc = "restore"]

\* the restore and what follows it: the two torch.save of a best save, the
\* return of the others
swap_restore ==
    /\ swp.pc = "restore"
    /\ swp' = [SwapOut(swp) EXCEPT
                  !.pc = IF swp.op = "save_best" /\ swp.fault = "write" THEN "raised"
                         ELSE "returned"]

\* the caller takes the outcome; a caller that goes on with shadow values
\* installed as live parameters is not followed further
swap_done ==
    /\ swp.pc \in {"returned", "raised"}
    /\ swp.live >= 0
    /\ swp' = [swp EXCEPT !.pc = "idle"]

InitSwap ==
    /\ \E e \in BOOLEAN :
          swp = [ema |-> e, live |-> 0, shadow |-> 0, collected |-> None, pc |-> "idle",
                 op |-> "none", n |-> 0, left |-> 0, fault |-> "none", before |-> 0,
                 trained |-> 0]
    /\ em = Unused /\ amp = Unused /\ dist = Unused /\ gui = Unused
    /\ lod = Unused /\ qual = Unused /\ fsx = Unused /\ cad = Unused /\ stp = Unused /\ ray = Unused
    /\ IdleTrainer

NextSwap ==
    \/ swap_train /\ UNCHANGED <<ckptVars, em, amp, dist, gui, lod, qual, fsx, cad, stp, ray>>
    \/ \E op \in SwapOps, n \in 0..MaxSwapBatches, fault \in SwapFaults :
          swap_call(op, n, fault) /\ UNCHANGED <<ckptVars, em, amp, dist, gui, lod, qual, fsx, cad, stp, ray>>
    \/ swap_body /\ UNCHANGED <<ckptVars, em, amp, dist, gui, lod, qual, fsx, cad, stp, ray>>
    \/ swap_restore /\ UNCHANGED <<ckptVars, em, amp, dist, gui, lod, qual, fsx, cad, stp, ray>>
    \/ swap_done /\ UNCHANGED <<ckptVars, em, amp, dist, gui, lod, qual, fsx, cad, stp, ray>>

SpecSwap == InitSwap /\ [][NextSwap]_vars

\* C11 (as claimed): when evaluate_one_epoch, test_gui or a best save is
\* over, by a return or by an error, the live parameters are those from
\* before the call.
C11_ScopedSwap ==
    swp.pc \in {"returned", "raised"} => swp.live = swp.before

\* ------------------------------------------------------------------------
\* Further properties of load_checkpoint and of train() over the workspace
\* ------------------------------------------------------------------------
\* C12 (as claimed): a load whose reference names no existing file (no
\* regular checkpoint for "latest", neither file for "best", or a missing
\* explicit path) does not raise and leaves the trainer as it was: as
\* constructed, for a load made by the constructor.
C12_MissingIsNoError ==
    [][(fx'.op \in {"construct", "load"} /\ fx'.loaded = None) =>
          /\ ~fx'.raised
          /\ fx'.op = "load" =>
                <<epoch, global_step, stats, model, ema, optimizer, lr_scheduler>>'
                  = <<epoch, global_step, stats, model, ema, optimizer, lr_scheduler>>
          /\ fx'.op = "construct" =>
                [epoch |-> epoch', global_step |-> global_step', stats |-> stats',
                 model |-> model', ema |-> ema', optimizer |-> optimizer',
                 lr_scheduler |-> lr_scheduler'] = Fresh(cfg')]_vars

\* ------------------------------------------------------------------------
\* load_checkpoint over files of both layouts, with failing restores
\* ------------------------------------------------------------------------
\* number of loads in a behaviour
MaxLoads == 1

\* the parts whose restore may raise
Components == {"ema", "optimizer", "lr_scheduler", "scaler"}

\* a file written by save_checkpoint(full, best=False) of trainer tr with
\* scaler state sc, and a file that holds a bare parameter set
StructuredFile(tr, sc, full) ==
    LET st == CkptState(tr, tr.stats, full, tr.model)
    IN  [bare |-> FALSE, model |-> st.model,
         rest |-> Some([state |-> st, scaler |-> IF full THEN Some(sc) ELSE None])]
BareFile(params) == [bare |-> TRUE, model |-> params, rest |-> None]

\* self.model.load_state_dict(checkpoint_dict): strict, raises when the keys differ
StrictLoadRaises(live, saved) == DOMAIN live # DOMAIN saved

\* if 'model' not in checkpoint_dict: self.model.load_state_dict(checkpoint_dict); return
LoadBare(tr, sc, f) ==
    IF StrictLoadRaises(tr.model, f.model)
    THEN [tr |-> tr, scaler |-> sc, raised |-> TRUE, warnings |-> {}]
    ELSE [tr |-> [tr EXCEPT !.model = LoadStateDict(tr.model, f.model)], scaler |-> sc,
          raised |-> FALSE, warnings |-> {}]

\* the restore of one of optimizer, lr_scheduler, scaler: inside try/except
TryRestore(live, saved, fails) == IF saved = None \/ fails THEN live ELSE saved[1]
TryWarning(name, saved, fails) == IF saved # None /\ fails THEN {"Failed to load " \o name} ELSE {}

\* the part after `if model_only: return`: stats, epoch, global_step, then
\* optimizer, lr_scheduler and scaler, each inside its own try/except
RestoreTraining(t, sc, f, failing, kw) ==
    LET st == f.rest[1].state
    IN  [tr |-> [t EXCEPT !.stats = st.stats, !.epoch = st.epoch,
                          !.global_step = st.global_step,
                          !.optimizer = TryRestore(@, st.optimizer, "optimizer" \in failing),
                          !.lr_scheduler = TryRestore(@, st.lr_scheduler, "lr_scheduler" \in failing)],
         scaler |-> TryRestore(sc, f.rest[1].scaler, "scaler" \in failing),
         raised |-> FALSE,
         warnings |-> kw \cup TryWarning("optimizer", st.optimizer, "optimizer" \in failing)
                        \cup TryWarning("scheduler", st.lr_scheduler, "lr_scheduler" \in failing)
                        \cup TryWarning("scaler", f.rest[1].scaler, "scaler" \in failing)]

\* the structured layout: model, then ema, then (unless model_only) the rest
LoadStructured_all(tr, sc, f, model_only, failing) ==
    LET st == f.rest[1].state
        kw == KeyWarnings(tr.model, f.model)
        has_ema == tr.ema # None /\ st.ema # None
        t1 == [tr EXCEPT !.model = LoadStateDict(tr.model, f.model)]
        t2 == [t1 EXCEPT !.ema = IF has_ema THEN st.ema ELSE @]
    IN  IF has_ema /\ "ema" \in failing
        THEN [tr |-> t1, scaler |-> sc, raised |-> TRUE, warnings |-> kw]
        ELSE RestoreTraining(t2, sc, f, failing, kw)
LoadStructured(tr, sc, f, model_only, failing) ==
    LET st == f.rest[1].state
        kw == KeyWarnings(tr.model, f.model)
        has_ema == tr.ema # None /\ st.ema # None
        t1 == [tr EXCEPT !.model = LoadStateDict(tr.model, f.model)]
        t2 == [t1 EXCEPT !.ema = IF has_ema THEN st.ema ELSE @]
    IN  IF has_ema /\ "ema" \in failing
        THEN [tr |-> t1, scaler |-> sc, raised |-> TRUE, warnings |-> kw]
        ELSE IF model_only
        THEN [tr |-> t2, scaler |-> sc, raised |-> FALSE, warnings |-> kw]
        ELSE RestoreTraining(t2, sc, f, failing, kw)

\* load_checkpoint(path, model_only) once torch.load has read f
LoadFile(tr, sc, f, model_only, failing) ==
    IF f.bare THEN LoadBare(tr, sc, f) ELSE LoadStructured(tr, sc, f, model_only, failing)

\* the trainers whose files are on disk: trained for n epochs of TrainSizes
\* batches under configuration c
SavedTrainers == {TrainedEpoch(Fresh(c), n, l) : c \in Cfgs, n \in TrainSizes, l \in TrainLossVals}
Files == {StructuredFile(t, 1, full) : t \in SavedTrainers, full \in BOOLEAN}
         \cup {BareFile(FreshModel(ks)) : ks \in KeySets}

load_file(f, model_only, failing) ==
    /\ lod.loads < MaxLoads
    /\ LET r == LoadFile(Self, lod.scaler, f, model_only, failing)
       IN  /\ SetSelf(r.tr)
           /\ lod' = [loads |-> lod.loads + 1, scaler |-> r.scaler, file |-> f,
                      model_only |-> model_only, failing |-> failing,
                      raised |-> r.raised, warnings |-> r.warnings,
                      before |-> [tr |-> Self, scaler |-> lod.scaler]]
    /\ UNCHANGED <<cfg, disk, pc, targs, fx, snap, calls>>

InitLoad ==
    /\ cfg \in Cfgs
    /\ SetInit(Fresh(cfg))
    /\ disk = << >> /\ pc = "idle" /\ targs = NoTrain
    /\ fx = NoFx("construct") /\ snap = NoSnap /\ calls = 0
    /\ lod = [loads |-> 0, scaler |-> 0, file |-> BareFile(FreshModel(cfg.keys)),
              model_only |-> FALSE, failing |-> {}, raised |-> FALSE, warnings |-> {},
              before |-> [tr |-> Fresh(cfg), scaler |-> 0]]
    /\ em = Unused /\ amp = Unused /\ dist = Unused /\ gui = Unused
    /\ swp = Unused /\ qual = Unused /\ fsx = Unused /\ cad = Unused /\ stp = Unused /\ ray = Unused

NextLoad ==
    /\ \E f \in Files, model_only \in BOOLEAN, failing \in SUBSET Components :
          load_file(f, model_only, failing)
    /\ UNCHANGED <<em, amp, dist, gui, swp, qual, fsx, cad, stp, ray>>

SpecLoad == InitLoad /\ [][NextLoad]_vars

\* the value a component has after a restore that worked
Restored(live, saved) == IF saved = None THEN live ELSE saved[1]

\* C13 (as claimed): a full load of a structured checkpoint during which the
\* restore of one of optimizer, scheduler, scaler, EMA fails does not raise,
\* restores the other components present in the file, and restores epoch,
\* global_step and stats.
C13_IndependentRestore ==
    (lod.loads > 0 /\ ~lod.file.bare /\ ~lod.model_only /\ Cardinality(lod.failing) = 1) =>
        LET st == lod.file.rest[1].state
            b == lod.before
        IN  /\ ~lod.raised
            /\ epoch = st.epoch /\ global_step = st.global_step /\ stats = st.stats
            /\ "optimizer" \notin lod.failing => optimizer = Restored(b.tr.optimizer, st.optimizer)
            /\ "lr_scheduler" \notin lod.failing =>
                  lr_scheduler = Restored(b.tr.lr_scheduler, st.lr_scheduler)
            /\ "scaler" \notin lod.failing =>
                  lod.scaler = Restored(b.scaler, lod.file.rest[1].scaler)
            /\ ("ema" \notin lod.failing /\ b.tr.ema # None) =>
                  ema = IF st.ema = None THEN b.tr.ema ELSE st.ema

\* C14 (as claimed): a load in which no restore fails copies the parameters
\* present in the file and in the live model, warns when the keys differ
\* and does not raise, whatever the layout of the file.
C14_PartialParameters ==
    (lod.loads > 0 /\ lod.failing = {}) =>
        /\ ~lod.raised
        /\ \A k \in DOMAIN model \cap DOMAIN lod.file.model : model[k] = lod.file.model[k]
        /\ DOMAIN lod.before.tr.model # DOMAIN lod.file.model => lod.warnings # {}

\* C15 (as claimed): load_checkpoint(model_only=True) of a structured file
\* leaves epoch, global_step, stats, optimizer, scheduler, scaler and the
\* EMA shadow values as they were.
C15_ModelOnlyFrame ==
    (lod.loads > 0 /\ ~lod.file.bare /\ lod.model_only /\ lod.failing = {}) =>
        /\ epoch = lod.before.tr.epoch
        /\ global_step = lod.before.tr.global_step
        /\ stats = lod.before.tr.stats
        /\ optimizer = lod.before.tr.optimizer
        /\ lr_scheduler = lod.before.tr.lr_scheduler
        /\ lod.scaler = lod.before.scaler
        /\ ema = lod.before.tr.ema

\* C15 (amended): load_checkpoint(model_only=True) of a structured file
\* restores the model parameters and, when the trainer has an EMA and the
\* file holds EMA state, the EMA shadow values; it leaves epoch,
\* global_step, stats, optimizer, scheduler and scaler as they were.
C15_ModelOnlyKeepsTraining ==
    (lod.loads > 0 /\ ~lod.file.bare /\ lod.model_only /\ ~lod.raised) =>
        LET st == lod.file.rest[1].state
            b == lod.before
        IN  /\ epoch = b.tr.epoch
            /\ global_step = b.tr.global_step
            /\ stats = b.tr.stats
            /\ optimizer = b.tr.optimizer
            /\ lr_scheduler = b.tr.lr_scheduler
            /\ lod.scaler = b.scaler
            /\ ema = IF b.tr.ema # None /\ st.ema # None THEN st.ema ELSE b.tr.ema
            /\ \A k \in DOMAIN model \cap DOMAIN lod.file.model : model[k] = lod.file.model[k]

\* a model_only load of a full checkpoint replaced the shadow values and
\* kept the step count of the trainer
C15_Witness ==
    /\ lod.loads > 0 /\ ~lod.file.bare /\ lod.model_only /\ ~lod.raised
    /\ ema # lod.before.tr.ema
    /\ ema = lod.file.rest[1].state.ema
    /\ global_step # lod.file.rest[1].state.global_step
    /\ lod.file.rest[1].state.optimizer # None

\* ------------------------------------------------------------------------
\* The quality value an evaluation appends to stats['results']
\* ------------------------------------------------------------------------
\* number of evaluations in a behaviour, and of configured metrics
MaxQualEvals == 2
MaxMetrics == 2

BestModes == {"min", "max"}
\* mean validation losses, and values of the first metric (a PSNR)
QualLosses == {1, 2}
QualMeasures == {20, 30}

\* auto fix: if len(metrics) == 0 or self.use_loss_as_metric: self.best_mode = 'min'
AutoFix(metrics, use_loss_as_metric, best_mode) ==
    IF metrics = 0 \/ use_loss_as_metric THEN "min" ELSE best_mode

\* the value appended to stats['results'] on the coordinating worker
RecordedResult_asis(q, average_loss, measure) ==
    IF ~q.use_loss_as_metric /\ q.metrics > 0 THEN measure ELSE average_loss
RecordedResult(q, average_loss, measure) ==
    IF ~q.use_loss_as_metric /\ q.metrics > 0
    THEN IF q.best_mode = "min" THEN measure ELSE -measure
    ELSE average_loss

\* the end of evaluate_one_epoch: average_loss and the first metric's measure()
qual_evaluate(average_loss, measure) ==
    /\ Len(qual.results) < MaxQualEvals
    /\ qual' = [qual EXCEPT !.results = Append(@, RecordedResult(qual, average_loss, measure)),
                            !.average_loss = average_loss, !.measure = measure]

InitQual ==
    /\ \E metrics \in 0..MaxMetrics, use_loss_as_metric \in BOOLEAN, best_mode \in BestModes :
          qual = [metrics |-> metrics, use_loss_as_metric |-> use_loss_as_metric,
                  configured_mode |-> best_mode,
                  best_mode |-> AutoFix(metrics, use_loss_as_metric, best_mode),
                  results |-> << >>, average_loss |-> 0, measure |-> 0]
    /\ em = Unused /\ amp = Unused /\ dist = Unused /\ gui = Unused
    /\ swp = Unused /\ lod = Unused /\ fsx = Unused /\ cad = Unused /\ stp = Unused /\ ray = Unused
    /\ IdleTrainer

NextQual ==
    /\ \E average_loss \in QualLosses, measure \in QualMeasures : qual_evaluate(average_loss, measure)
    /\ UNCHANGED <<ckptVars, em, amp, dist, gui, swp, lod, fsx, cad, stp, ray>>

SpecQual == InitQual /\ [][NextQual]_vars

MaxLatestEpoch == 2
MaxLatestLoads == 2

\* len(train_loader) of the runs that wrote the files
LatestSizes == {2, 10}
LatestPaths == {file_path(sz, e) : sz \in LatestSizes, e \in 1..MaxLatestEpoch}

\* the trainer that train() saves at the end of epoch ep with sz batches
RECURSIVE TrainedTo(_, _)
TrainedTo(sz, ep) == IF ep = 0 THEN Fresh(DefaultCfg)
                     ELSE [TrainedEpoch(TrainedTo(sz, ep - 1), sz, 1) EXCEPT !.epoch = ep]

\* the checkpoints directory holding the files S
DiskOf(S) == [p \in S |-> CkptState(TrainedTo(p.size, p.ep), TrainedTo(p.size, p.ep).stats,
                                     TRUE, TrainedTo(p.size, p.ep).model)]

\* glob.glob(f'{ckpt_path}/{name}_trainsize{train_size}_ep{epoch}.pth.tar'),
\* train_size and epoch being "*" when not given
Glob(d, train_size, ep) ==
    {p \in checkpoint_list(d) : /\ (train_size # None => p.size = train_size[1])
                                /\ (ep # None => p.ep = ep[1])}

\* sorted(...)[-1], or None when nothing matches
ResolveLatest(d, train_size, ep) ==
    IF Glob(d, train_size, ep) = {} THEN None
    ELSE Some(SortedLast(Glob(d, train_size, ep)))

\* load_checkpoint(train_size=..., epoch=...) without a path
load_latest(train_size, ep) ==
    /\ pc = "idle"
    /\ lod.loads < MaxLatestLoads
    /\ LET r == LoadResult(Self, disk, ResolveLatest(disk, train_size, ep), FALSE, "load")
       IN  /\ IF ResolveLatest(disk, train_size, ep) = None
              THEN UNCHANGED <<epoch, global_step, stats, model, ema, optimizer, lr_scheduler>>
                   /\ fx' = NoFx("load")
              ELSE SetSelf(r.tr) /\ fx' = r.fx
    /\ lod' = [loads |-> lod.loads + 1, train_size |-> train_size, ep |-> ep]
    /\ UNCHANGED <<cfg, disk, pc, targs, snap, calls>>

InitLatest ==
    /\ cfg = DefaultCfg
    /\ SetInit(Fresh(DefaultCfg))
    /\ \E S \in SUBSET LatestPaths : disk = DiskOf(S)
    /\ pc = "idle" /\ targs = NoTrain
    /\ fx = NoFx("construct") /\ snap = NoSnap /\ calls = 0
    /\ lod = [loads |-> 0, train_size |-> None, ep |-> None]
    /\ em = Unused /\ amp = Unused /\ dist = Unused /\ gui = Unused
    /\ swp = Unused /\ qual = Unused /\ fsx = Unused /\ cad = Unused /\ stp = Unused /\ ray = Unused

NextLatest ==
    /\ \E train_size \in {None} \cup {Some(sz) : sz \in LatestSizes},
          ep \in {None} \cup {Some(e) : e \in 1..MaxLatestEpoch} : load_latest(train_size, ep)
    /\ UNCHANGED <<em, amp, dist, gui, swp, qual, fsx, cad, stp, ray>>

SpecLatest == InitLatest /\ [][NextLatest]_vars

\* C17 (as claimed): a load without a path loads, among the files that
\* match the size tag and epoch filter, one of highest epoch; it loads
\* nothing only when no file matches.
C17_LatestIsNewest ==
    (fx.op = "load" /\ lod.loads > 0) =>
        /\ (fx.loaded = None <=> Glob(disk, lod.train_size, lod.ep) = {})
        /\ fx.loaded # None =>
              /\ fx.loaded[1] \in Glob(disk, lod.train_size, lod.ep)
              /\ \A p \in Glob(disk, lod.train_size, lod.ep) : p.ep <= fx.loaded[1].ep

\* ------------------------------------------------------------------------
\* File-system effects of the workers of a distributed run
\* ------------------------------------------------------------------------
\* number of operations each worker runs in a behaviour
MaxFsOps == 3

\* self.log(...): console and log file, on local_rank 0 only
LogEffects(rank) == IF rank = 0 THEN {"log write"} ELSE {}

\* one epoch of train(): the log lines of train_one_epoch, then
\* save_checkpoint under `self.workspace is not None and self.local_rank == 0`
TrainEpochEffects(rank) ==
    LogEffects(rank) \cup (IF rank = 0 THEN {"checkpoint write", "checkpoint remove"} ELSE {})

\* evaluate_one_epoch: log lines, and under `if self.local_rank == 0` the
\* image of each batch
EvaluateEffects(rank) ==
    LogEffects(rank) \cup (IF rank = 0 THEN {"makedirs", "validation image write"} ELSE {})

\* test(): os.makedirs(save_path), log lines, and cv2.imwrite of each batch
TestEffects(rank) == LogEffects(rank) \cup {"makedirs", "test image write"}

FsOps == {"train", "evaluate", "test"}
FsEffects(op, rank) ==
    CASE op = "train" -> TrainEpochEffects(rank) \cup EvaluateEffects(rank)
      [] op = "evaluate" -> EvaluateEffects(rank)
      [] op = "test" -> TestEffects(rank)

\* worker r runs op
fs_run(r, op) ==
    /\ fsx.ops[r] < MaxFsOps
    /\ fsx' = [fsx EXCEPT !.ops[r] = @ + 1, !.last[r] = op,
                          !.effects[r] = @ \cup FsEffects(op, r)]

InitFs ==
    /\ fsx = [ops |-> [r \in Ranks |-> 0], last |-> [r \in Ranks |-> "none"],
              effects |-> [r \in Ranks |-> {}]]
    /\ em = Unused /\ amp = Unused /\ dist = Unused /\ gui = Unused
    /\ swp = Unused /\ lod = Unused /\ qual = Unused /\ cad = Unused /\ stp = Unused /\ ray = Unused
    /\ IdleTrainer

NextFs ==
    /\ \E r \in Ranks, op \in FsOps : fs_run(r, op)
    /\ UNCHANGED <<ckptVars, em, amp, dist, gui, swp, lod, qual, cad, stp, ray>>

SpecFs == InitFs /\ [][NextFs]_vars

\* C18 (as claimed): with more than one worker, no worker other than rank 0
\* writes or removes a file in train, evaluate or test.
C18_CoordinatorOnly ==
    WorldSize > 1 => \A r \in Ranks \ {0} : fsx.effects[r] = {}

\* ------------------------------------------------------------------------
\* The collective protocol of evaluate_one_epoch
\* ------------------------------------------------------------------------
\* every worker is a process of its own that keeps running
SpecDistFair == SpecDist /\ WF_vars(NextDist)

\* the collective calls of n batches, as one worker issues them
RECURSIVE CallsOfBatches(_)
CallsOfBatches(n) == IF n = 0 THEN << >> ELSE CallsOfBatches(n - 1) \o Collectives

IsPrefix(a, b) == Len(a) <= Len(b) /\ \A i \in 1..Len(a) : a[i] = b[i]
KindsSent(r) == [i \in 1..Len(dist.sent[r]) |-> dist.sent[r][i].kind]

\* C19: with the same number of batches on every worker, each worker issues
\* the collective calls in the same order, one reduce and three gathers per
\* batch, a worker at the end of its pass has issued all of them, and the
\* pass ends on every worker.
C19_CollectiveProtocol ==
    /\ [](\A r \in Ranks :
            /\ IsPrefix(KindsSent(r), CallsOfBatches(EvalBatches))
            /\ dist.pc[r] = "done" => KindsSent(r) = CallsOfBatches(EvalBatches))
    /\ <>(\A r \in Ranks : dist.pc[r] = "done")

\* every worker is through, each after Len(Collectives) calls per batch
C19_Witness ==
    /\ \A r \in Ranks : dist.pc[r] = "done" /\ ~dist.waiting[r]
    /\ \A r \in Ranks : Len(dist.sent[r]) = Len(Collectives) * EvalBatches
    /\ \A r \in Ranks : KindsSent(r) = KindsSent(0)

\* ------------------------------------------------------------------------
\* Best tracking by train()
\* ------------------------------------------------------------------------
\* C20 (as claimed): once train() has made an evaluation pass, best_result
\* is present and is the best of stats['results'], and the canonical best
\* file exists.
C20_TrainTracksBest ==
    [][(fx'.op = "train_eval" /\ Len(stats'.results) > Len(stats.results)) =>
          /\ stats'.best_result # None
          /\ stats'.best_result = Some(SeqMin(stats'.results))
          /\ best_path \in DOMAIN disk']_vars

\* ------------------------------------------------------------------------
\* Checkpoint cadence of train()
\* ------------------------------------------------------------------------
MaxCadTrains == 2

\* eval_interval, save_max_epoch_only, workspace and local_rank of the trainer
CadenceCfgs ==
    {[DefaultCfg EXCEPT !.eval_interval = i, !.save_max_epoch_only = b,
                        !.workspace = w, !.local_rank = r] :
        i \in EvalIntervals, b \in BOOLEAN, w \in BOOLEAN, r \in {0, 1}}

\* cad.hist: for each epoch the running train() call has finished, the epoch
\* and whether its checkpoint step wrote the regular file of that epoch
InitCadence ==
    /\ em = Unused /\ amp = Unused /\ dist = Unused /\ gui = Unused
    /\ swp = Unused /\ lod = Unused /\ qual = Unused /\ fsx = Unused /\ stp = Unused /\ ray = Unused
    /\ cfg \in CadenceCfgs
    /\ SetInit(Fresh(cfg))
    /\ disk = << >>
    /\ pc = "idle"
    /\ targs = NoTrain
    /\ fx = NoFx("construct")
    /\ snap = NoSnap
    /\ calls = 0
    /\ cad = [trains |-> 0, max_epochs |-> 0, hist |-> << >>]

cad_train ==
    /\ cad.trains < MaxCadTrains
    /\ \E me \in 1..MaxEpochs, size \in TrainSizes, l \in TrainLossVals :
          /\ train(me, size, FALSE, 0, l)
          /\ cad' = [trains |-> cad.trains + 1, max_epochs |-> me, hist |-> << >>]
    /\ UNCHANGED calls

cad_epoch ==
    /\ \E l \in TrainLossVals : train_one_epoch(l)
    /\ UNCHANGED cad

cad_save ==
    /\ train_save
    /\ cad' = [cad EXCEPT !.hist = Append(@, [e |-> epoch,
                    wrote |-> /\ fx'.written = {file_path(targs.size, epoch)}
                              /\ file_path(targs.size, epoch) \in DOMAIN disk'
                              /\ disk'[file_path(targs.size, epoch)].optimizer # None])]

cad_eval ==
    /\ \E vt \in LossVals, v \in LossVals : train_eval(vt, v)
    /\ UNCHANGED cad

NextCadence ==
    \/ cad_train /\ UNCHANGED <<em, amp, dist, gui, swp, lod, qual, fsx, stp, ray>>
    \/ cad_epoch /\ UNCHANGED <<em, amp, dist, gui, swp, lod, qual, fsx, stp, ray>>
    \/ cad_save /\ UNCHANGED <<em, amp, dist, gui, swp, lod, qual, fsx, stp, ray>>
    \/ cad_eval /\ UNCHANGED <<em, amp, dist, gui, swp, lod, qual, fsx, stp, ray>>

SpecCadence == InitCadence /\ [][NextCadence]_vars

\* the number of epochs of the running train() call whose checkpoint was written
RECURSIVE Written(_)
Written(h) == IF h = << >> THEN 0
              ELSE (IF Head(h).wrote THEN 1 ELSE 0) + Written(Tail(h))

\* C21: on the coordinating worker with a workspace, train() writes the
\* regular full checkpoint of epoch e iff (not save_max_epoch_only and e is a
\* multiple of eval_interval) or (save_max_epoch_only and e = max_epochs); a
\* finished train() call with save_max_epoch_only that ran at least one epoch
\* wrote exactly one regular checkpoint.
C21_Cadence ==
    (cad # Unused /\ cfg.workspace /\ cfg.local_rank = 0) =>
        /\ \A i \in DOMAIN cad.hist :
              cad.hist[i].wrote <=>
                 \/ ~cfg.save_max_epoch_only /\ cad.hist[i].e % cfg.eval_interval = 0
                 \/ cfg.save_max_epoch_only /\ cad.hist[i].e = cad.max_epochs
        /\ (pc = "idle" /\ cfg.save_max_epoch_only /\ Len(cad.hist) >= 1) =>
              Written(cad.hist) = 1

\* a finished train() call of two epochs under save_max_epoch_only, with
\* exactly the last epoch written
C21_Witness ==
    /\ cad # Unused /\ cfg.workspace /\ cfg.local_rank = 0 /\ pc = "idle"
    /\ Len(cad.hist) = 2 /\ ~cad.hist[1].wrote /\ cad.hist[2].wrote
    /\ cfg.save_max_epoch_only

\* ------------------------------------------------------------------------
\* get_rays(poses, intrinsics, H, W, N, error_map): the sampled indices
\* ------------------------------------------------------------------------
\* side of the coarse grid of the error map
CoarseGrid == 128
\* torch.rand draws k / RandSteps for k < RandSteps; k = RandSteps stands for
\* a float32 sum that is rounded up to the upper edge of the cell
RandSteps == 4

RaySizes == {1, 100, 128, 200}
RayCounts == {-1, 1, CoarseGrid * CoarseGrid, CoarseGrid * CoarseGrid + 1}
CoarseCoords == {0, 1, CoarseGrid - 1}

\* torch.multinomial(input, n, replacement=False) over a row of ncat
\* non-zero entries: n distinct categories, an error when n > ncat
MultinomialRaises(ncat, n) == n > ncat

\* (ic * s + torch.rand(...) * s).long() for s = size / 128
Perturbed(ic, k, size) == ((ic * RandSteps + k) * size) \div (CoarseGrid * RandSteps)

\* .clamp(max=hi)
Clamp(x, hi) == IF x > hi THEN hi ELSE x

\* one of the indices returned for a view: drawn by torch.randint as u, or
\* mapped from the coarse cell ic with the draws kx, ky
GetRays(H, W, N, has_map, ic, kx, ky, u) ==
    IF N > 0
    THEN LET n == Min2(N, H * W) IN
         IF ~has_map
         THEN [pc |-> "returned", count |-> n, has_inds |-> TRUE, ind |-> u,
               inds_coarse |-> None, row |-> u \div W, col |-> u % W]
         ELSE IF MultinomialRaises(CoarseGrid * CoarseGrid, n)
         THEN [pc |-> "raised", count |-> 0, has_inds |-> FALSE, ind |-> 0,
               inds_coarse |-> None, row |-> 0, col |-> 0]
         ELSE LET inds_x == Clamp(Perturbed(ic \div CoarseGrid, kx, H), H - 1)
                  inds_y == Clamp(Perturbed(ic % CoarseGrid, ky, W), W - 1)
              IN  [pc |-> "returned", count |-> n, has_inds |-> TRUE,
                   ind |-> inds_x * W + inds_y, inds_coarse |-> Some(ic),
                   row |-> inds_x, col |-> inds_y]
    ELSE [pc |-> "returned", count |-> H * W, has_inds |-> FALSE, ind |-> u,
          inds_coarse |-> None, row |-> u \div W, col |-> u % W]

get_rays ==
    /\ ray.pc = "call"
    /\ \E cx \in CoarseCoords, cy \in CoarseCoords, kx \in 0..RandSteps, ky \in 0..RandSteps,
          u \in {0, ray.H * ray.W - 1} :
          ray' = [H |-> ray.H, W |-> ray.W, N |-> ray.N, error_map |-> ray.error_map] @@
                 GetRays(ray.H, ray.W, ray.N, ray.error_map, cx * CoarseGrid + cy, kx, ky, u)

InitRays ==
    /\ em = Unused /\ amp = Unused /\ dist = Unused /\ gui = Unused
    /\ swp = Unused /\ lod = Unused /\ qual = Unused /\ fsx = Unused
    /\ cad = Unused /\ stp = Unused
    /\ IdleTrainer
    /\ \E H \in RaySizes, W \in RaySizes, N \in RayCounts, has_map \in BOOLEAN :
          ray = [H |-> H, W |-> W, N |-> N, error_map |-> has_map, pc |-> "call",
                 count |-> 0, has_inds |-> FALSE, ind |-> 0, inds_coarse |-> None,
                 row |-> 0, col |-> 0]

NextRays ==
    get_rays /\ UNCHANGED <<ckptVars, em, amp, dist, gui, swp, lod, qual, fsx, cad, stp>>

SpecRays == InitRays /\ [][NextRays]_vars

\* the rows (columns) covered by the coarse coordinate c on an axis of the
\* given size, edges included, cut at the last row (column)
InCell(x, c, size) ==
    /\ (c * size) \div CoarseGrid <= x
    /\ x <= Min2(size - 1, ((c + 1) * size) \div CoarseGrid)

\* C22 (as claimed): get_rays with N > 0 returns min(N, H*W) indices per
\* view, each in [0, H*W); with an error map each index comes from a coarse
\* cell by a perturbation within the cell, clamped to the last row and column.
C22_SamplingBounds ==
    (ray # Unused /\ ray.pc # "call" /\ ray.N > 0) =>
        /\ ray.pc = "returned"
        /\ ray.has_inds
        /\ ray.count = Min2(ray.N, ray.H * ray.W)
        /\ ray.ind \in 0..(ray.H * ray.W - 1)
        /\ ray.error_map =>
              /\ ray.inds_coarse # None
              /\ InCell(ray.row, ray.inds_coarse[1] \div CoarseGrid, ray.H)
              /\ InCell(ray.col, ray.inds_coarse[1] % CoarseGrid, ray.W)
              /\ ray.ind = ray.row * ray.W + ray.col

\* ------------------------------------------------------------------------
\* The range of the error map under the weights the constructor accepts
\* ------------------------------------------------------------------------
\* error_map_weight is stored as given, in tenths: -0.5, 0.1, 0.9 and 1.5
AnyWeights == {-5, 1, 9, 15}

InitErrAny ==
    /\ \E w \in AnyWeights, x \in {0, One} :
          em = [map |-> [v \in Views |-> [c \in Cells |-> IF c = 0 THEN One ELSE x]],
                w |-> w, steps |-> 0,
                index |-> << >>, inds |-> << >>, error |-> << >>]
    /\ amp = Unused /\ dist = Unused /\ gui = Unused /\ MoreUnused
    /\ cfg = DefaultCfg
    /\ SetInit(Fresh(DefaultCfg))
    /\ disk = << >> /\ pc = "idle" /\ targs = NoTrain
    /\ fx = NoFx("construct") /\ snap = NoSnap /\ calls = 0

SpecErrAny == InitErrAny /\ [][NextErr]_vars

\* C23 (as claimed): from a grid with entries in [0,1], after any updates
\* with observed errors in [0,1] and any error_map_weight the constructor
\* accepts, every entry of the error map is in [0,1].
C23_ErrorMapRange ==
    em # Unused => \A v \in Views, c \in Cells : 0 <= em.map[v][c] /\ em.map[v][c] <= One

\* ------------------------------------------------------------------------
\* The training loops step by step: train_one_epoch, train_gui and
\* train_last_data_only
\* ------------------------------------------------------------------------
\* number of optimization steps of a behaviour
MaxStep == 35
\* the model refreshes its acceleration structure when global_step % 16 == 0
RefreshEvery == 16

\* len(loader), step and num_iters of the three loops
LoopSizes == {1, 3}
Loops == {"train_one_epoch", "train_gui", "train_last_data_only"}

\* fp16, model.cuda_ray, ema_decay given, scheduler_update_every_step, and
\* whether lr_scheduler is a ReduceLROnPlateau
DefaultStepCfg == [fp16 |-> FALSE, cuda_ray |-> FALSE, ema |-> FALSE,
                   every_step |-> FALSE, plateau |-> FALSE]
StepCfgs == {DefaultStepCfg,
             [DefaultStepCfg EXCEPT !.fp16 = TRUE],
             [DefaultStepCfg EXCEPT !.fp16 = TRUE, !.every_step = TRUE],
             [DefaultStepCfg EXCEPT !.cuda_ray = TRUE],
             [DefaultStepCfg EXCEPT !.ema = TRUE],
             [DefaultStepCfg EXCEPT !.every_step = TRUE],
             [DefaultStepCfg EXCEPT !.plateau = TRUE],
             [DefaultStepCfg EXCEPT !.plateau = TRUE, !.every_step = TRUE]}

\* self.scaler = torch.cuda.amp.GradScaler(enabled=self.fp16)
NewScaler_enabled(fp16) == GradScaler(TRUE)
NewScaler(fp16) == GradScaler(fp16)

\* scaler.scale(loss): the exponent of 2 the loss is multiplied by
LossScale(sc) == IF sc.enabled THEN sc.scale ELSE 0

\* self.model.cuda_ray and self.global_step % 16 == 0
RefreshDue_after(cuda_ray, gs) == cuda_ray /\ (gs + 1) % RefreshEvery = 0
RefreshDue(cuda_ray, gs) == cuda_ray /\ gs % RefreshEvery = 0

\* lr_scheduler.step() without an argument: ReduceLROnPlateau.step(metrics)
\* requires the metrics and raises a TypeError without them
SchedulerStepRaises(plateau, signal) == plateau /\ signal = None

NoCall == [steps |-> 0, applied |-> 0, advances |-> 0, ema_updates |-> 0]
NoLast == [kind |-> "init", overflow |-> FALSE, applied |-> FALSE, advanced |-> FALSE,
           signal |-> None, refreshed |-> FALSE, loss_scale |-> 0]

\* the step-level state after Trainer.__init__
StepTrainer(c) ==
    [cfg |-> c, scaler |-> NewScaler(c.fp16), global_step |-> 0, local_step |-> 0,
     applied |-> 0, loop |-> "idle", n |-> 0, i |-> 0, call |-> NoCall,
     last_refresh |-> None, gap |-> None, last |-> NoLast]

\* the head of a loop: local_step is reset by train_one_epoch and
\* train_last_data_only, not by train_gui
LoopEnter(s, loop, n) ==
    [s EXCEPT !.loop = loop, !.n = n, !.i = 0, !.call = NoCall,
              !.local_step = IF loop = "train_gui" THEN @ ELSE 0,
              !.last = [NoLast EXCEPT !.kind = "enter"]]

\* whether the loop advances the scheduler in its body
AdvancesInBody(s) == s.cfg.every_step /\ s.loop # "train_last_data_only"

\* one iteration of the body of a loop
LoopStep(s, overflow) ==
    LET refresh == RefreshDue(s.cfg.cuda_ray, s.global_step)
        r == PrecisionStep(s.scaler, overflow)
        raises == AdvancesInBody(s) /\ SchedulerStepRaises(s.cfg.plateau, None)
        advanced == AdvancesInBody(s) /\ ~raises
    IN  [s EXCEPT
           !.last_refresh = IF refresh THEN Some(s.global_step) ELSE @,
           !.gap = IF refresh /\ s.last_refresh # None
                   THEN Some(s.global_step - s.last_refresh[1]) ELSE @,
           !.local_step = IF s.loop = "train_gui" THEN @ ELSE @ + 1,
           !.global_step = @ + 1,
           !.scaler = r.scaler,
           !.applied = IF r.applied THEN @ + 1 ELSE @,
           !.i = @ + 1,
           !.loop = IF raises THEN "raised" ELSE @,
           !.call = [@ EXCEPT !.steps = @ + 1,
                              !.applied = IF r.applied THEN @ + 1 ELSE @,
                              !.advances = IF advanced THEN @ + 1 ELSE @],
           !.last = [kind |-> "step", overflow |-> overflow, applied |-> r.applied,
                     advanced |-> advanced, signal |-> None, refreshed |-> refresh,
                     loss_scale |-> LossScale(s.scaler)]]

\* the tail of a loop, with the mean loss of the call
LoopExit(s, average_loss) ==
    LET tail == s.loop # "train_last_data_only"
        advances == tail /\ ~s.cfg.every_step
        signal == IF advances /\ s.cfg.plateau THEN Some(average_loss) ELSE None
        raises == advances /\ SchedulerStepRaises(s.cfg.plateau, signal)
    IN  [s EXCEPT
           !.loop = IF raises THEN "raised" ELSE "idle",
           !.call = [@ EXCEPT !.ema_updates = IF tail /\ s.cfg.ema THEN @ + 1 ELSE @,
                              !.advances = IF advances /\ ~raises THEN @ + 1 ELSE @],
           !.last = [NoLast EXCEPT !.kind = "exit", !.advanced = advances /\ ~raises,
                                   !.signal = signal]]

step_enter(loop, n) ==
    /\ stp.loop = "idle"
    /\ stp.global_step + n <= MaxStep
    /\ stp' = LoopEnter(stp, loop, n)

step_body(overflow) ==
    /\ stp.loop \in Loops
    /\ stp.i < stp.n
    /\ overflow /\ stp.scaler.enabled => stp.scaler.scale > InitScaleExp - MaxBackoffs
    /\ stp' = LoopStep(stp, overflow)

step_exit(average_loss) ==
    /\ stp.loop \in Loops
    /\ stp.i = stp.n
    /\ stp' = LoopExit(stp, average_loss)

InitStep ==
    /\ em = Unused /\ amp = Unused /\ dist = Unused /\ gui = Unused
    /\ swp = Unused /\ lod = Unused /\ qual = Unused /\ fsx = Unused
    /\ cad = Unused /\ ray = Unused
    /\ IdleTrainer
    /\ \E c \in StepCfgs : stp = StepTrainer(c)

NextStep ==
    \/ \E loop \in Loops, n \in LoopSizes :
          step_enter(loop, n)
            /\ UNCHANGED <<ckptVars, em, amp, dist, gui, swp, lod, qual, fsx, cad, ray>>
    \/ \E overflow \in BOOLEAN :
          step_body(overflow)
            /\ UNCHANGED <<ckptVars, em, amp, dist, gui, swp, lod, qual, fsx, cad, ray>>
    \/ \E average_loss \in TrainLossVals :
          step_exit(average_loss)
            /\ UNCHANGED <<ckptVars, em, amp, dist, gui, swp, lod, qual, fsx, cad, ray>>

SpecStep == InitStep /\ [][NextStep]_vars

\* the loops that have a tail: EMA update and per-epoch scheduler step
TailLoops == {"train_one_epoch", "train_gui"}

\* C24 (as claimed): global_step never decreases and equals the number of
\* optimization updates applied to the parameters so far, across the three
\* training loops.
C24_GlobalStepCountsUpdates ==
    /\ [](stp.global_step = stp.applied)
    /\ [][stp'.global_step >= stp.global_step]_vars

\* C26 (as claimed): under the every-step cadence, a step of train_one_epoch
\* or train_gui advances the scheduler iff its optimizer update was applied
\* (steps at which the scheduler raised are left out).
C26_SchedulerAfterAppliedStep ==
    [][(/\ stp.cfg.every_step
        /\ stp.loop \in TailLoops
        /\ stp'.last.kind = "step"
        /\ stp'.loop # "raised") =>
          (stp'.last.advanced <=> stp'.last.applied)]_vars

\* C27 (as claimed): a plateau scheduler is advanced without error under
\* either cadence and is given the mean loss whenever it is advanced; a call
\* of a loop advances it once per step or once at its end, never both.
C27_PlateauSignal ==
    /\ [](stp.cfg.plateau =>
            /\ stp.loop # "raised"
            /\ stp.last.advanced => stp.last.signal # None)
    /\ [][(stp.cfg.plateau /\ stp.loop \in TailLoops /\ stp'.last.kind = "exit") =>
            stp'.call.advances = IF stp.cfg.every_step THEN stp'.call.steps ELSE 1]_vars

\* C28 (as claimed): with EMA enabled, a call of train_one_epoch or
\* train_gui that made k optimization steps updated the shadow k times.
C28_EmaPerStep ==
    [][(stp.cfg.ema /\ stp.loop \in TailLoops /\ stp'.last.kind = "exit") =>
          stp'.call.ema_updates = stp'.call.steps]_vars

\* C29: a training step asks the model to refresh its acceleration
\* structure iff the model has the capability and the number of steps
\* completed so far is a multiple of 16; consecutive refreshes are 16 steps
\* apart, also across calls of the loops; a model without the capability is
\* never asked.
C29_RefreshCadence ==
    /\ [][stp'.last.kind = "step" =>
            (stp'.last.refreshed <=> (stp.cfg.cuda_ray /\ stp.global_step % 16 = 0))]_vars
    /\ [](stp.gap # None => stp.gap[1] = 16)
    /\ [](~stp.cfg.cuda_ray => stp.last_refresh = None)

\* the third refresh, made in the middle of a call 16 steps after the second
C29_Witness ==
    /\ stp.cfg.cuda_ray
    /\ stp.last.kind = "step" /\ stp.last.refreshed
    /\ stp.last_refresh = Some(32) /\ stp.gap = Some(16)
    /\ stp.i = 2

\* C30: with fp16 off, every step of the three loops leaves the loss
\* unscaled, applies the optimizer update and leaves the scaler as it was,
\* whatever the gradients hold.
C30_PassThrough ==
    [][(~stp.cfg.fp16 /\ stp'.last.kind = "step") =>
          /\ stp'.last.loss_scale = 0
          /\ stp'.last.applied
          /\ stp'.scaler = stp.scaler
          /\ stp'.applied = stp.applied + 1]_vars

\* a step with fp16 off whose gradients held an inf, applied all the same
C30_Witness ==
    /\ ~stp.cfg.fp16
    /\ stp.last.kind = "step" /\ stp.last.overflow /\ stp.last.applied
    /\ stp.applied = 2 /\ stp.global_step = 2

\* ------------------------------------------------------------------------
\* The order of evaluation and checkpoint within an epoch of train()
\* ------------------------------------------------------------------------
\* C25 (as claimed): when an epoch of train() is both checkpointed and
\* evaluated, the checkpoint file of that epoch holds the validation loss
\* and the result of that epoch's evaluation.
C25_EvaluateThenPersist ==
    [][(/\ pc = "train_eval"
        /\ cad.hist # << >> /\ Last(cad.hist).e = epoch /\ Last(cad.hist).wrote
        /\ Len(stats'.results) > Len(stats.results)) =>
          LET fp == file_path(targs.size, epoch)
          IN  /\ fp \in DOMAIN disk'
              /\ disk'[fp].stats.results = stats'.results
              /\ disk'[fp].stats.valid_loss = stats'.valid_loss]_vars

\* ------------------------------------------------------------------------
\* Writes of one training step to the error map
\* ------------------------------------------------------------------------
\* the batch of the update made last lists no view twice
DistinctViews(e) == \A b1 \in DOMAIN e.index, b2 \in DOMAIN e.index :
                       e.index[b1] = e.index[b2] => b1 = b2
\* the cells sampled for each entry of the batch are pairwise distinct
DistinctCells(e) == \A b \in DOMAIN e.inds : \A n1 \in DOMAIN e.inds[b], n2 \in DOMAIN e.inds[b] :
                       e.inds[b][n1] = e.inds[b][n2] => n1 = n2
\* every sampled cell holds the blend of its own error with its old value
AllBlended(old, e) == \A b \in DOMAIN e.index : \A n \in DOMAIN e.inds[b] :
    e.map[e.index[b]][e.inds[b][n]] * Tenths =
        e.w * old.map[e.index[b]][e.inds[b][n]] + (Tenths - e.w) * e.error[b][n]

MaxResumeCalls == 4

\* max_keep_ckpt of the trainers of the workspace
ResumeCfgs == {[DefaultCfg EXCEPT !.max_keep_ckpt = k] : k \in 1..(MaxKeep + 1)}

\* one workspace under one configuration: train(), evaluate(), best saves,
\* and new trainers that load the latest or the best checkpoint; the only
\* regular saves are those of train()
ResumeInvoke ==
    \/ \E full \in BOOLEAN, size \in SaveSizes : save_checkpoint(full, TRUE, TRUE, size)
    \/ \E v \in LossVals : evaluate(v)
    \/ \E me \in 1..MaxEpochs, size \in TrainSizes, l \in TrainLossVals :
          train(me, size, FALSE, 0, l)
    \/ \E u \in {"latest", "best"} : Construct(cfg, u, best_path)

InitResume ==
    /\ em = Unused /\ amp = Unused /\ dist = Unused /\ gui = Unused /\ MoreUnused
    /\ cfg \in ResumeCfgs
    /\ SetInit(Fresh(cfg))
    /\ disk = << >>
    /\ pc = "idle"
    /\ targs = NoTrain
    /\ fx = NoFx("construct")
    /\ snap = NoSnap
    /\ calls = 0

NextResume ==
    \/ /\ calls < MaxResumeCalls /\ calls' = calls + 1
       /\ ResumeInvoke
       /\ UNCHANGED <<em, amp, dist, gui, moreVars>>
    \/ TrainLoop /\ UNCHANGED <<em, amp, dist, gui, moreVars>>

SpecResume == InitResume /\ [][NextResume]_vars

\* C32 (as claimed): after any sequence of train, save_checkpoint and
\* load-then-resume operations every path listed in stats['checkpoints'] is a
\* file on disk, and no path is listed twice.
C32_TrackedExist ==
    /\ \A i \in DOMAIN stats.checkpoints : stats.checkpoints[i] \in DOMAIN disk
    /\ \A i \in DOMAIN stats.checkpoints, j \in DOMAIN stats.checkpoints :
          stats.checkpoints[i] = stats.checkpoints[j] => i = j

\* ------------------------------------------------------------------------
\* Epochs trained across save, load and repeated train() calls
\* ------------------------------------------------------------------------
\* C33 (as claimed): every epoch number is trained at most once, so when an
\* epoch of train() has just been trained stats['loss'] holds one entry for
\* each epoch number up to it; a train() call made after a full checkpoint
\* of epoch N was loaded starts with epoch N + 1.
C33_NoRetrain ==
    /\ [](pc = "train_save" => Len(stats.loss) = epoch)
    /\ [][(/\ pc = "idle" /\ pc' = "train_one_epoch"
           /\ fx.op \in {"load", "construct"} /\ fx.loaded # None /\ ~fx.model_only
           /\ disk[fx.loaded[1]].optimizer # None
           /\ Len(disk[fx.loaded[1]].stats.loss) = disk[fx.loaded[1]].epoch) =>
             epoch' = disk[fx.loaded[1]].epoch + 1]_vars

\* ------------------------------------------------------------------------
\* Epoch-tagged files on disk against stats['checkpoints']
\* ------------------------------------------------------------------------
\* the epoch-tagged checkpoint files of the checkpoints directory
EpochTagged(d) == {p \in DOMAIN d : p.kind = "ckpt"}

\* C34 (as claimed): with the regular saves made by train() and with best
\* saves, every epoch-tagged file on disk is listed in stats['checkpoints'],
\* and the number of epoch-tagged files never exceeds max_keep_ckpt.
C34_DiskRetention ==
    /\ \A p \in EpochTagged(disk) : p \in Range(stats.checkpoints)
    /\ Cardinality(EpochTagged(disk)) <= cfg.max_keep_ckpt

\* ------------------------------------------------------------------------
\* train() with all its arguments: the burst on the last batch, the epochs,
\* the checkpoints and the evaluation passes of one call
\* ------------------------------------------------------------------------
MaxRunTrains == 2
MaxIters == 1

\* eval_interval, save_max_epoch_only, workspace and ema_decay on the
\* coordinating worker
RunCfgs == {[c EXCEPT !.ema_decay = b] : c \in {d \in CadenceCfgs : d.local_rank = 0},
                                         b \in BOOLEAN}

\* the number of iterations of range(e0, max_epochs + 1)
EpochsOf(e0, max_epochs) == IF max_epochs >= e0 THEN max_epochs - e0 + 1 ELSE 0

\* the entries one call adds to stats['loss'] and to stats['results']
LossEntries(e0, max_epochs, iters) ==
    EpochsOf(e0, max_epochs) + (IF iters > 0 THEN 1 ELSE 0)
ResultEntries(c, e0, max_epochs, eval_train) ==
    Cardinality({e \in e0..max_epochs : EvaluatesAt(c, e)}) * (IF eval_train THEN 2 ELSE 1)

NoRun == [trains |-> 0, e0 |-> 0, max_epochs |-> 0, size |-> 0, iters |-> 0,
          entry |-> None, data |-> None, epochs |-> << >>, saves |-> 0,
          evals |-> 0, valid |-> None]

\* cad.entry: the trainer when train() was called; cad.data: the index list
\* train_last_data_only hands to collate_fn; cad.epochs: the epochs run with
\* the number of steps of each; cad.saves, cad.evals: checkpoint calls and
\* evaluated epochs; cad.valid: the mean loss of the latest pass over the
\* validation supply
InitRun ==
    /\ em = Unused /\ amp = Unused /\ dist = Unused /\ gui = Unused
    /\ swp = Unused /\ lod = Unused /\ qual = Unused /\ fsx = Unused
    /\ stp = Unused /\ ray = Unused
    /\ cfg \in RunCfgs
    /\ SetInit(Fresh(cfg))
    /\ disk = << >>
    /\ pc = "idle"
    /\ targs = NoTrain
    /\ fx = NoFx("construct")
    /\ snap = NoSnap
    /\ calls = 0
    /\ cad = NoRun

run_train ==
    /\ cad.trains < MaxRunTrains
    /\ \E me \in 0..MaxEpochs, size \in TrainSizes, eval_train \in BOOLEAN,
          iters \in 0..MaxIters, l \in TrainLossVals :
          /\ Len(stats.loss) + LossEntries(epoch, me, iters) <= MaxHist
          /\ Len(stats.results) + ResultEntries(cfg, epoch, me, eval_train) <= MaxHist
          /\ train(me, size, eval_train, iters, l)
          /\ cad' = [NoRun EXCEPT !.trains = cad.trains + 1, !.e0 = epoch,
                                  !.max_epochs = me, !.size = size, !.iters = iters,
                                  !.entry = Some(Self),
                                  !.data = IF iters > 0 THEN Some(<<-1>>) ELSE None]
    /\ UNCHANGED calls

run_epoch ==
    /\ \E l \in TrainLossVals : train_one_epoch(l)
    /\ cad' = [cad EXCEPT !.epochs = Append(@, [e |-> epoch,
                                                steps |-> global_step' - global_step])]

run_save ==
    /\ train_save
    /\ cad' = [cad EXCEPT !.saves = @ + Cardinality(fx'.written)]

run_eval ==
    /\ \E vt \in LossVals, v \in LossVals :
          /\ train_eval(vt, v)
          /\ cad' = IF EvaluatesAt(cfg, epoch)
                    THEN [cad EXCEPT !.evals = @ + 1, !.valid = Some(v)]
                    ELSE cad

RunLoop ==
    \/ run_epoch /\ UNCHANGED <<em, amp, dist, gui, swp, lod, qual, fsx, stp, ray>>
    \/ run_save /\ UNCHANGED <<em, amp, dist, gui, swp, lod, qual, fsx, stp, ray>>
    \/ run_eval /\ UNCHANGED <<em, amp, dist, gui, swp, lod, qual, fsx, stp, ray>>

NextRun ==
    \/ run_train /\ UNCHANGED <<em, amp, dist, gui, swp, lod, qual, fsx, stp, ray>>
    \/ RunLoop

\* the body of train() is sequential code: a started call keeps running
SpecRun == InitRun /\ [][NextRun]_vars /\ WF_vars(RunLoop)

\* C35 (as claimed): an evaluated epoch of train() adds exactly one entry to
\* stats['valid_loss'] and one to stats['results'], the one computed on the
\* validation supply, also when an eval_train_loader is given.
C35_OneResultPerEpoch ==
    [][(pc = "train_eval" /\ EvaluatesAt(cfg, epoch)) =>
          /\ stats'.valid_loss = Append(stats.valid_loss, cad'.valid[1])
          /\ stats'.results = Append(stats.results, cad'.valid[1])]_vars

\* ------------------------------------------------------------------------
\* The three training loops against the two kinds of batch: what train_step
\* returns and reads, and what each loop unpacks
\* ------------------------------------------------------------------------
MaxEntryStep == 8

\* global_step after __init__, or as restored by load_checkpoint
EntrySteps == {0, 5}
\* len(loader), step and num_iters of a call
EntrySizes == {1, 2}

\* the number of names the loop binds the result of train_step to
UnpackArity(loop) == IF loop = "train_gui" THEN GuiUnpackArity ELSE 4

\* train_step(data): the CLIP path returns before self.error_map is read;
\* the image path reads self.error_map, which raises AttributeError when the
\* attribute was never assigned
TrainStepOutcome(images, error_map_set) ==
    IF images /\ ~error_map_set THEN [raised |-> "AttributeError", arity |-> 0]
    ELSE [raised |-> "none", arity |-> TrainStepArity(images)]

EntryIdle(gs, error_map_set) ==
    [pc |-> "idle", loop |-> "idle", n |-> 0, i |-> 0, images |-> FALSE,
     global_step |-> gs, error_map_set |-> error_map_set, raised |-> "none"]

\* the call of a loop; train_one_epoch and train_last_data_only are called
\* by train() after self.error_map = train_loader._data.error_map
entry_call(loop, n, images) ==
    /\ gui.pc = "idle"
    /\ gui.global_step + n <= MaxEntryStep
    /\ gui' = [EntryIdle(gui.global_step, gui.error_map_set \/ loop # "train_gui") EXCEPT
                  !.pc = "loop", !.loop = loop, !.n = n, !.images = images]

\* one iteration of the body of the loop, up to the unpacking of the result
entry_step ==
    /\ gui.pc = "loop"
    /\ gui.i < gui.n
    /\ LET set == gui.error_map_set \/ (gui.loop = "train_gui" /\ gui.global_step = 0)
           r == TrainStepOutcome(gui.images, set)
           g == [gui EXCEPT !.error_map_set = set, !.global_step = @ + 1]
       IN  gui' = IF r.raised # "none"
                  THEN [g EXCEPT !.pc = "raised", !.raised = r.raised]
                  ELSE IF r.arity # UnpackArity(gui.loop)
                  THEN [g EXCEPT !.pc = "raised", !.raised = "ValueError"]
                  ELSE [g EXCEPT !.i = @ + 1]

\* the loop is over, or the caller has taken the exception
entry_done ==
    /\ \/ gui.pc = "loop" /\ gui.i = gui.n
       \/ gui.pc = "raised"
    /\ gui' = EntryIdle(gui.global_step, gui.error_map_set)

InitEntry ==
    /\ \E gs \in EntrySteps : gui = EntryIdle(gs, FALSE)
    /\ em = Unused /\ amp = Unused /\ dist = Unused /\ MoreUnused
    /\ IdleTrainer

NextEntry ==
    \/ \E loop \in Loops, n \in EntrySizes, images \in BOOLEAN :
          entry_call(loop, n, images) /\ UNCHANGED <<ckptVars, em, amp, dist, moreVars>>
    \/ entry_step /\ UNCHANGED <<ckptVars, em, amp, dist, moreVars>>
    \/ entry_done /\ UNCHANGED <<ckptVars, em, amp, dist, moreVars>>

SpecEntry == InitEntry /\ [][NextEntry]_vars

\* C36 (as claimed): for a batch with images and for a batch without, a
\* step of train_one_epoch, train_gui and train_last_data_only does not
\* raise: the result of train_step has the number of values the loop
\* unpacks and self.error_map is set when train_step reads it, also on a
\* trainer resumed with global_step > 0.
C36_BothBatchKinds == gui.pc # "raised"

\* ------------------------------------------------------------------------
\* The epochs run by one train() call
\* ------------------------------------------------------------------------
\* max(0, max_epochs - e0 + 1)
ClaimedEpochs(e0, max_epochs) ==
    IF max_epochs - e0 + 1 > 0 THEN max_epochs - e0 + 1 ELSE 0

\* a finished call ran the epochs e0..max_epochs in order, each of as many
\* steps as the supply has batches, and ended at max_epochs if it ran any
RanClaimedEpochs ==
    LET n == ClaimedEpochs(cad.e0, cad.max_epochs)
    IN  /\ cad.epochs = [i \in 1..n |-> [e |-> cad.e0 + i - 1, steps |-> cad.size]]
        /\ n >= 1 => epoch = cad.max_epochs

C38_LastBatchBurst ==
    [][(cad # Unused /\ cad'.trains = cad.trains + 1) =>
          LET k == cad'.iters
          IN  /\ optimizer' = optimizer + k
              /\ model' = Stepped(model, k)
              /\ k > 0 => cad'.data = Some(<<-1>>)
              /\ global_step' = global_step + k
              /\ Len(stats'.loss) = Len(stats.loss) + (IF k > 0 THEN 1 ELSE 0)
              /\ SubSeq(stats'.loss, 1, Len(stats.loss)) = stats.loss
              /\ epoch' = epoch
              /\ lr_scheduler' = lr_scheduler
              /\ ema' = ema
              /\ stats'.checkpoints = stats.checkpoints
              /\ stats'.results = stats.results
              /\ stats'.valid_loss = stats.valid_loss
              /\ stats'.best_result = stats.best_result
              /\ k = 0 => Self' = Self]_vars

\* a burst of one step has just been made on a trainer that has run an epoch
\* and keeps an EMA shadow
C38_Witness ==
    /\ cad # Unused /\ fx.op = "train" /\ cad.iters = 1
    /\ ema # None /\ ema[1] > 0 /\ lr_scheduler > 0
    /\ global_step = cad.entry[1].global_step + 1
    /\ Len(stats.loss) = 2

====
